---- MODULE Spec2Model ----
(***************************************************************************)
(* Model of the graph execution engine: the variable store                 *)
(* (app/core/state.py), Formula nodes (app/core/nodes.py) and the          *)
(* dependency resolver DAGSolver (app/solver/dag_solver.py).               *)
(*                                                                         *)
(* One behaviour is one call of DAGSolver.solve(nodes, edges, state) on a   *)
(* constructed solver: the first step takes the arguments of the call and  *)
(* plans the execution, every later step is one statement block of solve.  *)
(* Values are integers: the modelled expressions map integer-valued        *)
(* floats to integer-valued floats, so the arithmetic is exact.            *)
(***************************************************************************)
EXTENDS Integers, Sequences, FiniteSets, TLC

\* ---------------------------------------------------------------- bounds
\* longest edge list handed to solve
MaxEdges == 4
\* largest iteration cap (max_iterations ranges over 0..MaxCap)
MaxCap == 3

\* ------------------------------------------------------- generic helpers
Range(s) == {s[i] : i \in 1..Len(s)}

Reverse(s) == [i \in 1..Len(s) |-> s[Len(s) + 1 - i]]

\* position of the first occurrence of x in s (0 when absent)
IndexOf(s, x) ==
    IF x \in Range(s) THEN CHOOSE i \in 1..Len(s) : s[i] = x /\ \A j \in 1..(i - 1) : s[j] # x
    ELSE 0

\* number of occurrences of x in s
Count(s, x) == Cardinality({i \in 1..Len(s) : s[i] = x})

\* the elements of s that are in keep, in the order of s
RECURSIVE Filter(_, _)
Filter(s, keep) ==
    IF s = <<>> THEN <<>>
    ELSE IF Head(s) \in keep THEN <<Head(s)>> \o Filter(Tail(s), keep)
    ELSE Filter(Tail(s), keep)

\* all orderings of the finite set S
Perms(S) == {p \in [1..Cardinality(S) -> S] : \A i, j \in 1..Cardinality(S) : i # j => p[i] # p[j]}

\* ------------------------------------------------------ inputs of a solve
\* node ids a graph description may use
IdPool == <<"A", "B", "C">>

Ids == Range(IdPool)

IdRank(n) == IndexOf(IdPool, n)

\* the variable a node writes (its outputs[0])
OutVar == [n \in Ids |-> IF n = "A" THEN "a_out" ELSE IF n = "B" THEN "b_out" ELSE "c_out"]

\* FormulaNode expressions: a constant, or one variable combined with a constant;
\* "affine" is (num / den) * v + k on values held in fixed point
ProgChain ==
    [n \in Ids |->
        IF n = "A" THEN [op |-> "const", v |-> "", k |-> 2]
        ELSE IF n = "B" THEN [op |-> "mul", v |-> "a_out", k |-> 2]
        ELSE [op |-> "add", v |-> "b_out", k |-> 10]]

ProgFeedback ==
    [n \in Ids |->
        IF n = "A" THEN [op |-> "add", v |-> "b_out", k |-> 1]
        ELSE IF n = "B" THEN [op |-> "add", v |-> "a_out", k |-> 0]
        ELSE [op |-> "div", v |-> "c_out", k |-> 2]]

Programs == {ProgChain, ProgFeedback}

\* FormulaNode(node_id, outputs=[OutVar], params={"expression": ...})
MakeNode(n, prog) ==
    [type |-> "formula", node_id |-> n, expression |-> prog[n], outputs |-> <<OutVar[n]>>]

\* node maps: dicts in insertion order, keyed by a prefix of IdPool
NodeMaps == {[i \in 1..k |-> MakeNode(IdPool[i], prog)] : k \in 1..Len(IdPool), prog \in Programs}

EdgeRank(e) == Len(IdPool) * IdRank(e[1]) + IdRank(e[2])

RECURSIVE Ascending(_)
Ascending(E) ==
    IF E = {} THEN <<>>
    ELSE LET m == CHOOSE e \in E : \A f \in E : EdgeRank(e) <= EdgeRank(f)
         IN <<m>> \o Ascending(E \ {m})

\* edge lists: every set of at most MaxEdges edges over Ids (self-loops and
\* ids outside the node map included), listed in two different orders
EdgeLists ==
    LET sets == {E \in SUBSET (Ids \X Ids) : Cardinality(E) <= MaxEdges}
    IN {Ascending(E) : E \in sets} \cup {Reverse(Ascending(E)) : E \in sets}

EmptyStore == [x \in {} |-> 0]

\* initial assignments: none, the outputs preset, an unrelated variable only
InitialStates ==
    {EmptyStore,
     [x \in {"a_out", "b_out", "c_out"} |-> IF x = "c_out" THEN 4 ELSE 0],
     [x \in {"u"} |-> 5]}

\* ------------------------------------------------------ the test scenarios
\* one unit of the fixed-point values: a millionth
Scale == 1000 * 1000

\* DAGSolver(convergence_threshold=0.001, max_iterations=200)
TestThreshold == Scale \div 1000

TestMaxIterations == 200

FormulaOf(node_id, output, expression) ==
    [type |-> "formula", node_id |-> node_id, expression |-> expression, outputs |-> <<output>>]

Affine(v, num, den, k) == [op |-> "affine", v |-> v, num |-> num, den |-> den, k |-> k]

\* X: x_val = 0.5 * y_val + 1
NodeX == FormulaOf("X", "x_val", Affine("y_val", 5, 10, Scale))

\* Y: y_val = 0.3 * x_val + 2
NodeY == FormulaOf("Y", "y_val", Affine("x_val", 3, 10, 2 * Scale))

\* alone: val = 42
NodeAlone == FormulaOf("alone", "val", [op |-> "const", v |-> "", k |-> 42 * Scale])

\* a source that presets y_val and a sink that reads it, around the pair X, Y
NodeSource == FormulaOf("S", "y_val", [op |-> "const", v |-> "", k |-> 0])

NodeSink == FormulaOf("T", "t_val", Affine("y_val", 1, 1, 0))

FeedbackEdges == <<<<"X", "Y">>, <<"Y", "X">>>>

ZeroStore == [x \in {"x_val", "y_val"} |-> 0]

Scenarios ==
    {[nodes |-> <<NodeX, NodeY>>, edges |-> FeedbackEdges, state |-> ZeroStore],
     [nodes |-> <<NodeSource, NodeX, NodeY, NodeSink>>,
      edges |-> <<<<"S", "X">>>> \o FeedbackEdges \o <<<<"Y", "T">>>>,
      state |-> ZeroStore],
     [nodes |-> <<NodeAlone>>, edges |-> <<>>, state |-> EmptyStore]}

\* iteration caps tried on the scenarios: none, a short one, the test's
ScenarioCaps == {0, 2, TestMaxIterations}

\* ------------------------------------------------------- SystemState
StateSetAlone(vars_, name, value) == [x \in {name} |-> value]

\* self._variables[name] = value
StateSet(vars_, name, value) ==
    [x \in (DOMAIN vars_) \cup {name} |-> IF x = name THEN value ELSE vars_[x]]

Abs(x) == IF x < 0 THEN -x ELSE x

SetMax(S) == IF S = {} THEN 0 ELSE CHOOSE m \in S : \A x \in S : x <= m
StateDeltaSigned(vars_, previous_snapshot) ==
    IF DOMAIN previous_snapshot = {} THEN [inf |-> TRUE, val |-> 0]
    ELSE [inf |-> FALSE,
          val |-> SetMax({vars_[key] - previous_snapshot[key] :
                            key \in (DOMAIN vars_) \cap (DOMAIN previous_snapshot)})]
StateDeltaNoSentinel(vars_, previous_snapshot) ==
    [inf |-> FALSE,
     val |-> SetMax({Abs(vars_[key] - previous_snapshot[key]) :
                       key \in (DOMAIN vars_) \cap (DOMAIN previous_snapshot)})]

\* delta(previous_snapshot): inf against an empty snapshot, otherwise the
\* largest absolute difference over the keys present on both sides
StateDelta(vars_, previous_snapshot) ==
    IF DOMAIN previous_snapshot = {} THEN [inf |-> TRUE, val |-> 0]
    ELSE [inf |-> FALSE,
          val |-> SetMax({Abs(vars_[key] - previous_snapshot[key]) :
                            key \in (DOMAIN vars_) \cap (DOMAIN previous_snapshot)})]

\* ------------------------------------------------------- FormulaNode
\* _SAFE_BUILTINS: the names the namespace holds besides the store's
SafeBuiltins ==
    {"abs", "min", "max", "pow", "round", "sqrt", "sin", "cos", "tan", "log", "exp", "pi"}

\* integer square root
Sqrt(x) == CHOOSE r \in 0..x : r * r <= x /\ (r + 1) * (r + 1) > x

\* eval of the expression in the namespace built from the store; ok = FALSE
\* when eval or float() raises: an undefined name, a call of a name that is
\* not in the namespace, a math fault, a result that is no number
Eval(expression, vars_) ==
    IF expression.op = "const" THEN [ok |-> TRUE, val |-> expression.k]
    ELSE IF expression.op = "attr" /\ expression.v \in SafeBuiltins
         THEN [ok |-> FALSE, val |-> 0]
    ELSE IF expression.v \notin DOMAIN vars_ THEN [ok |-> FALSE, val |-> 0]
    ELSE IF expression.op = "attr"
         THEN IF expression.attr = "real" THEN [ok |-> TRUE, val |-> vars_[expression.v]]
              ELSE [ok |-> FALSE, val |-> 0]
    ELSE IF expression.op = "call"
         THEN IF expression.fn \notin SafeBuiltins THEN [ok |-> FALSE, val |-> 0]
              ELSE IF expression.fn = "sqrt"
                   THEN IF vars_[expression.v] < 0 THEN [ok |-> FALSE, val |-> 0]
                        ELSE [ok |-> TRUE, val |-> Sqrt(vars_[expression.v])]
              ELSE [ok |-> TRUE, val |-> Abs(vars_[expression.v])]
    ELSE IF expression.op = "recip"
         THEN IF vars_[expression.v] = 0 THEN [ok |-> FALSE, val |-> 0]
              ELSE [ok |-> TRUE, val |-> expression.k \div vars_[expression.v]]
    ELSE IF expression.op = "add" THEN [ok |-> TRUE, val |-> vars_[expression.v] + expression.k]
    ELSE IF expression.op = "mul" THEN [ok |-> TRUE, val |-> vars_[expression.v] * expression.k]
    ELSE IF expression.op = "affine"
         THEN [ok |-> TRUE,
               val |-> (expression.num * vars_[expression.v]) \div expression.den + expression.k]
    ELSE [ok |-> TRUE, val |-> vars_[expression.v] \div expression.k]

\* what the evaluation gets at besides arithmetic over the namespace: an
\* attribute of an object of the namespace is looked up on the object itself
Capabilities(expression, vars_) ==
    IF expression.op # "attr" THEN {}
    ELSE IF expression.v \in SafeBuiltins /\ expression.attr = "__self__"
         THEN {"attribute", "builtins module"}
    ELSE IF expression.v \in DOMAIN vars_ /\ expression.attr = "real" THEN {"attribute"}
    ELSE {}

\* a compute call that returned
Returned(vars_) == [raised |-> FALSE, vars |-> vars_, error |-> <<>>]

FormulaComputeWritingZero(node, vars_) ==
    LET r == Eval(node.expression, vars_)
        output_name == IF node.outputs # <<>> THEN node.outputs[1] ELSE "formula_result"
    IN IF r.ok THEN Returned(StateSet(vars_, output_name, r.val))
       ELSE [raised |-> TRUE, vars |-> StateSet(vars_, output_name, 0),
             error |-> [kind |-> "ValueError", node_id |-> node.node_id,
                        expression |-> node.expression]]

\* FormulaNode.compute: the store after the call, or raised = TRUE with the
\* store untouched and a ValueError naming the node and the expression
FormulaCompute(node, vars_) ==
    LET r == Eval(node.expression, vars_)
        output_name == IF node.outputs # <<>> THEN node.outputs[1] ELSE "formula_result"
    IN IF r.ok THEN Returned(StateSet(vars_, output_name, r.val))
       ELSE [raised |-> TRUE, vars |-> vars_,
             error |-> [kind |-> "ValueError", node_id |-> node.node_id,
                        expression |-> node.expression]]

\* ------------------------------------------------------- SweepNode
\* get(name, default=0.0)
StateGet(vars_, name) == IF name \in DOMAIN vars_ THEN vars_[name] ELSE 0

\* SweepNode.compute: copies output_var (0.0 when unset) to outputs[0], or to
\* "sweep_result" when the node has no outputs
SweepCompute(node, vars_) ==
    LET output_name == IF node.outputs # <<>> THEN node.outputs[1] ELSE "sweep_result"
    IN Returned(StateSet(vars_, output_name, StateGet(vars_, node.output_var)))

\* ------------------------------------------------------- Motor, Heater, Hydraulic
\* dict.get(name, default)
DictGet(d, name, default) == IF name \in DOMAIN d THEN d[name] ELSE default

\* the floats of the component nodes, in thousandths
Milli == 1000

Times(a, b) == (a * b) \div Milli

\* a / b: ZeroDivisionError when b is 0
Over(a, b) ==
    IF b = 0 THEN [ok |-> FALSE, val |-> 0] ELSE [ok |-> TRUE, val |-> (a * Milli) \div b]

Unguarded(num, den) == Over(num, den)

\* num / den if den != 0 else 0.0
Guarded(num, den) == IF den # 0 THEN Over(num, den) ELSE [ok |-> TRUE, val |-> 0]

\* the input and output names, by position or by default
NameAt(names, i, default) == IF Len(names) >= i THEN names[i] ELSE default

\* state.set of the current, unless the division raised
WriteCurrent(current, vars_, output_name) ==
    IF current.ok THEN Returned(StateSet(vars_, output_name, current.val))
    ELSE [raised |-> TRUE, vars |-> vars_, error |-> [kind |-> "ZeroDivisionError"]]

\* MotorNode.compute: power = torque * omega, omega = speed * 2 * pi / 60,
\* current = power / (efficiency * voltage)
MotorCompute(node, vars_) ==
    WriteCurrent(Guarded(Times(StateGet(vars_, NameAt(node.inputs, 1, "torque")),
                               Over(Times(StateGet(vars_, NameAt(node.inputs, 2, "speed")) * 2,
                                          3142),
                                    60 * Milli).val),
                         Times(DictGet(node.params, "efficiency", 850),
                               DictGet(node.params, "voltage", 230 * Milli))),
                 vars_, NameAt(node.outputs, 1, "motor_current"))

\* resistance = r0 * (1 + alpha * (temperature - t0))
Resistance(r0, alpha, t0, temperature) == Times(r0, Milli + Times(alpha, temperature - t0))

\* the Heater's two state.set calls: the resistance, then the current
WriteHeater(resistance, voltage, vars_, outputs_) ==
    WriteCurrent(Guarded(voltage, resistance),
                 StateSet(vars_, NameAt(outputs_, 1, "heater_resistance"), resistance),
                 NameAt(outputs_, 2, "heater_current"))

\* HeaterNode.compute: current = voltage / resistance
HeaterCompute(node, vars_) ==
    WriteHeater(Resistance(DictGet(node.params, "r0", 10 * Milli),
                           DictGet(node.params, "alpha", 4),
                           DictGet(node.params, "t0", 25 * Milli),
                           StateGet(vars_, NameAt(node.inputs, 1, "temperature"))),
                DictGet(node.params, "voltage", 230 * Milli), vars_, node.outputs)

\* HydraulicNode.compute: power = pressure * flow_rate,
\* current = power / (efficiency * voltage)
HydraulicCompute(node, vars_) ==
    WriteCurrent(Guarded(Times(StateGet(vars_, NameAt(node.inputs, 1, "pressure")),
                               StateGet(vars_, NameAt(node.inputs, 2, "flow_rate"))),
                         Times(DictGet(node.params, "efficiency", 800),
                               DictGet(node.params, "voltage", 400 * Milli))),
                 vars_, NameAt(node.outputs, 1, "hydraulic_current"))

\* node.compute(state), by node class
Compute(node, vars_) ==
    IF node.type = "sweep" THEN SweepCompute(node, vars_)
    ELSE IF node.type = "motor" THEN MotorCompute(node, vars_)
    ELSE IF node.type = "heater" THEN HeaterCompute(node, vars_)
    ELSE IF node.type = "hydraulic" THEN HydraulicCompute(node, vars_)
    ELSE FormulaCompute(node, vars_)

\* ------------------------------------------------------- the DiGraph
NodeKeys(nodes_) == [i \in 1..Len(nodes_) |-> nodes_[i].node_id]

AddNew(s, x) == IF x \in Range(s) THEN s ELSE Append(s, x)

\* node order after add_nodes_from(keys) and add_edges_from(edges)
RECURSIVE AddEdgeNodes(_, _)
AddEdgeNodes(s, edges_) ==
    IF edges_ = <<>> THEN s
    ELSE AddEdgeNodes(AddNew(AddNew(s, Head(edges_)[1]), Head(edges_)[2]), Tail(edges_))

\* successors of n in adjacency (first insertion) order
RECURSIVE Successors(_, _)
Successors(edges_, n) ==
    IF edges_ = <<>> THEN <<>>
    ELSE LET rest == Successors(Tail(edges_), n)
         IN IF Head(edges_)[1] = n
            THEN <<Head(edges_)[2]>> \o Filter(rest, Range(rest) \ {Head(edges_)[2]})
            ELSE rest

RECURSIVE Predecessors(_, _)
Predecessors(edges_, n) ==
    IF edges_ = <<>> THEN <<>>
    ELSE LET rest == Predecessors(Tail(edges_), n)
         IN IF Head(edges_)[2] = n
            THEN <<Head(edges_)[1]>> \o Filter(rest, Range(rest) \ {Head(edges_)[1]})
            ELSE rest

\* DAGSolver._build_graph
BuildGraph(nodes_, edges_) ==
    LET ns == AddEdgeNodes(NodeKeys(nodes_), edges_)
    IN [nodes |-> ns,
        succ |-> [n \in Range(ns) |-> Successors(edges_, n)],
        pred |-> [n \in Range(ns) |-> Predecessors(edges_, n)]]
\* graph.subgraph(keep).copy(): the view keeps the order of the parent graph
\* unless fewer than half of its nodes are kept, which in the graphs used
\* here (at most four nodes) leaves a single node
Subgraph(g, keep) ==
    [nodes |-> Filter(g.nodes, keep),
     succ |-> [n \in Range(g.nodes) \cap keep |-> Filter(g.succ[n], keep)],
     pred |-> [n \in Range(g.nodes) \cap keep |-> Filter(g.pred[n], keep)]]

\* graph.edges: for every node in order, its out-edges in adjacency order
RECURSIVE GraphEdgesFrom(_, _)
GraphEdgesFrom(g, ns) ==
    IF ns = <<>> THEN <<>>
    ELSE [i \in 1..Len(g.succ[Head(ns)]) |-> <<Head(ns), g.succ[Head(ns)][i]>>]
         \o GraphEdgesFrom(g, Tail(ns))

GraphEdges(g) == GraphEdgesFrom(g, g.nodes)

HasEdge(g, u, v) == u \in Range(g.nodes) /\ v \in Range(g.succ[u])

\* ------------------------------------------------------- Kahn's sort
\* in_degree: one count per edge of graph.edges that enters the node
InDegree(g) ==
    LET es == GraphEdges(g)
    IN [n \in Range(g.nodes) |-> Cardinality({i \in 1..Len(es) : es[i][2] = n})]

KahnSeedAll(g, in_degree) == g.nodes

KahnSeedFirst(g, in_degree) ==
    LET Zero(n) == in_degree[n] = 0
    IN IF SelectSeq(g.nodes, Zero) = <<>> THEN <<>> ELSE <<Head(SelectSeq(g.nodes, Zero))>>

\* the initial queue: the in-degree-zero nodes in node order
KahnSeed(g, in_degree) ==
    LET Zero(n) == in_degree[n] = 0
    IN SelectSeq(g.nodes, Zero)

EnqueueAlways(d) == TRUE

\* "if in_degree[successor] == 0": the successor has no unprocessed predecessor
EnqueueReady(d) == d = 0

\* the inner loop over graph.successors(node)
RECURSIVE KahnRelax(_, _, _)
KahnRelax(succs, in_degree, queue) ==
    IF succs = <<>> THEN [in_degree |-> in_degree, queue |-> queue]
    ELSE LET s == Head(succs)
             d == in_degree[s] - 1
         IN KahnRelax(Tail(succs), [in_degree EXCEPT ![s] = d],
                      IF EnqueueReady(d) THEN Append(queue, s) ELSE queue)
RECURSIVE KahnLoopLifo(_, _, _, _)
KahnLoopLifo(g, queue, in_degree, result) ==
    IF queue = <<>> THEN result
    ELSE LET node == queue[Len(queue)]
             r == KahnRelax(g.succ[node], in_degree, SubSeq(queue, 1, Len(queue) - 1))
         IN KahnLoopLifo(g, r.queue, r.in_degree, Append(result, node))

\* the while loop: dequeue, append to the result, relax the successors
RECURSIVE KahnLoop(_, _, _, _)
KahnLoop(g, queue, in_degree, result) ==
    IF queue = <<>> THEN result
    ELSE LET node == Head(queue)
             r == KahnRelax(g.succ[node], in_degree, Tail(queue))
         IN KahnLoop(g, r.queue, r.in_degree, Append(result, node))
KahnsSortReversed(g) == Reverse(KahnLoop(g, KahnSeed(g, InDegree(g)), InDegree(g), <<>>))

KahnsSort(g) == KahnLoop(g, KahnSeed(g, InDegree(g)), InDegree(g), <<>>)

\* ------------------------------------------------------- cycles
\* sequences of distinct nodes of g
Paths(g) ==
    LET N == Range(g.nodes)
    IN UNION {{p \in [1..k -> N] : \A i, j \in 1..k : i # j => p[i] # p[j]} : k \in 1..Cardinality(N)}

IsCycle(g, p) ==
    /\ \A i \in 1..(Len(p) - 1) : HasEdge(g, p[i], p[i + 1])
    /\ HasEdge(g, p[Len(p)], p[1])

ProperCycles(g) ==
    {p \in Paths(g) : Len(p) >= 2 /\ IsCycle(g, p)
                      /\ \A i \in 2..Len(p) : IndexOf(g.nodes, p[1]) < IndexOf(g.nodes, p[i])}

\* nx.simple_cycles: every elementary circuit once (listed from its first
\* node in graph order), self-loops included
SimpleCycles(g) ==
    {p \in Paths(g) : IsCycle(g, p)
                      /\ \A i \in 2..Len(p) : IndexOf(g.nodes, p[1]) < IndexOf(g.nodes, p[i])}

FirstCycleOnly(cycles) ==
    IF cycles = {} THEN {}
    ELSE Range(CHOOSE c \in cycles : \A d \in cycles : Len(c) <= Len(d))

\* cycle_node_ids: the union of the nodes of all cycles
CycleNodeIds(cycles) == UNION {Range(c) : c \in cycles}

DependsOnSuccessor(g, nid, cycle_node_ids_) ==
    \E s \in Range(g.succ[nid]) : s \in cycle_node_ids_

\* depends_on_cycle: some direct predecessor is a cycle node
DependsOnCycle(g, nid, cycle_node_ids_) ==
    \E pred \in Range(g.pred[nid]) : pred \in cycle_node_ids_
CycleInDegreeWhole(g, cycle_node_ids_, n) == Cardinality(Range(g.pred[n]))

\* in-degree inside graph.subgraph(cycle_nodes)
CycleInDegree(g, cycle_node_ids_, n) ==
    Cardinality(Range(g.pred[n]) \cap cycle_node_ids_)

\* _resolve_cycle_order: sorted() is stable over the iteration order of the
\* set, which is arbitrary: every order of ascending in-degree is possible
CycleOrders(g, cycle_node_ids_) ==
    {p \in Perms(cycle_node_ids_) :
        \A i, j \in 1..Len(p) :
            i < j => CycleInDegree(g, cycle_node_ids_, p[i]) <= CycleInDegree(g, cycle_node_ids_, p[j])}

ConvergedOrEqual(delta_, threshold) == ~delta_.inf /\ delta_.val <= threshold
ConvergedInverted(delta_, threshold) == ~delta_.inf /\ delta_.val > threshold

\* delta < self.convergence_threshold (inf is below nothing)
Converged(delta_, threshold) == ~delta_.inf /\ delta_.val < threshold

RangeHasNextUncapped(iteration_, cap) == iteration_ < cap + 1

\* range(1, max_iterations + 1) yields another iteration
RangeHasNext(iteration_, cap) == iteration_ < cap

\* ------------------------------------------------------- solve as a whole
\* "for node_id in ids: if node_id in nodes: compute; append" from the store
\* vars_, appending to log; raised when a compute raises
RECURSIVE RunNodes(_, _, _, _)
RunNodes(ids, nodes_, vars_, log) ==
    IF ids = <<>> THEN [raised |-> FALSE, vars |-> vars_, log |-> log]
    ELSE IF Head(ids) \notin Range(NodeKeys(nodes_)) THEN RunNodes(Tail(ids), nodes_, vars_, log)
    ELSE LET r == Compute(nodes_[IndexOf(NodeKeys(nodes_), Head(ids))], vars_)
         IN IF r.raised THEN [raised |-> TRUE, vars |-> vars_, log |-> log]
            ELSE RunNodes(Tail(ids), nodes_, r.vars, Append(log, Head(ids)))

\* _iterate_until_converged after done_ iterations
RECURSIVE Iterate(_, _, _, _, _, _, _)
Iterate(nodes_, cycle_order_, vars_, cap, threshold, done_, log) ==
    IF ~RangeHasNext(done_, cap)
    THEN [raised |-> IF done_ = 0 THEN "UnboundLocalError" ELSE "none", vars |-> vars_, log |-> log]
    ELSE LET r == RunNodes(cycle_order_, nodes_, vars_, log)
         IN IF r.raised THEN [raised |-> "ValueError", vars |-> r.vars, log |-> r.log]
            ELSE IF Converged(StateDelta(r.vars, vars_), threshold)
                 THEN [raised |-> "none", vars |-> r.vars, log |-> r.log]
                 ELSE Iterate(nodes_, cycle_order_, r.vars, cap, threshold, done_ + 1, r.log)

Outcome(raised_, vars_, order_) == [raised |-> raised_, vars |-> vars_, execution_order |-> order_]

\* solve with the cyclic nodes run in the order cycle_order_
SolveMixed(nodes_, g, cyc, cycle_order_, vars_, cap, threshold) ==
    LET acyclic_order == KahnsSort(Subgraph(g, Range(g.nodes) \ cyc))
        Post(nid) == DependsOnCycle(g, nid, cyc)
        Pre(nid) == ~DependsOnCycle(g, nid, cyc)
        p == RunNodes(SelectSeq(acyclic_order, Pre), nodes_, vars_, <<>>)
        it == Iterate(nodes_, cycle_order_, p.vars, cap, threshold, 0, <<>>)
        q == RunNodes(SelectSeq(acyclic_order, Post), nodes_, it.vars, p.log \o it.log)
    IN IF p.raised THEN Outcome("ValueError", p.vars, p.log)
       ELSE IF it.raised # "none" THEN Outcome(it.raised, it.vars, p.log)
       ELSE Outcome(IF q.raised THEN "ValueError" ELSE "none", q.vars, q.log)

\* the results solve(nodes_, edges_, state) can give, one per order in which
\* the cyclic nodes may be sorted
SolveOutcomes(nodes_, edges_, vars_, cap, threshold) ==
    LET g == BuildGraph(nodes_, edges_)
        cycles == SimpleCycles(g)
        cyc == CycleNodeIds(cycles)
        d == RunNodes(KahnsSort(g), nodes_, vars_, <<>>)
    IN IF cycles = {}
       THEN {Outcome(IF d.raised THEN "ValueError" ELSE "none", d.vars, d.log)}
       ELSE {SolveMixed(nodes_, g, cyc, co, vars_, cap, threshold) : co \in CycleOrders(g, cyc)}

\* ------------------------------------------------------- sweeps
LinspaceOpen(start, stop, num) ==
    [i \in 1..num |-> start + ((i - 1) * (stop - start)) \div num]

\* np.linspace(start, stop, num): num samples start + i * step with
\* step = (stop - start) / (num - 1), the last one set to stop; a single
\* sample is start; sample values are rounded to the fixed-point unit
Linspace(start, stop, num) ==
    [i \in 1..num |->
        IF num = 1 THEN start
        ELSE IF i = num THEN stop
        ELSE start + ((i - 1) * (stop - start)) \div (num - 1)]

\* SweepNode.get_sweep_range
GetSweepRange(node) == Linspace(node.min_val, node.max_val, node.steps)

\* ------------------------------------------------------- graph descriptions
\* the node registry of the module
VARIABLES
    registry,               \* _REGISTRY (dict in insertion order): <<[tag, cls]>>
    registrations,          \* the register_node_type calls made so far
    computed                \* the last create_node and compute made on its node

\* _REGISTRY at import; a class is named by the tag it is built in under
DefaultRegistry ==
    <<[tag |-> "motor", cls |-> "motor"],
      [tag |-> "heater", cls |-> "heater"],
      [tag |-> "hydraulic", cls |-> "hydraulic"],
      [tag |-> "formula", cls |-> "formula"],
      [tag |-> "sweep", cls |-> "sweep"]>>

\* list(_REGISTRY.keys())
RegistryKeys(reg) == [i \in 1..Len(reg) |-> reg[i].tag]

\* list_node_types
ListNodeTypes == RegistryKeys(registry)

\* the registered type tags
Registry == Range(ListNodeTypes)

RegistrySetDefault(reg, type_name, cls) ==
    IF type_name \in Range(RegistryKeys(reg)) THEN reg
    ELSE Append(reg, [tag |-> type_name, cls |-> cls])

\* _REGISTRY[type_name] = cls
RegistryPut(reg, type_name, cls) ==
    IF type_name \in Range(RegistryKeys(reg))
    THEN [reg EXCEPT ![IndexOf(RegistryKeys(reg), type_name)].cls = cls]
    ELSE Append(reg, [tag |-> type_name, cls |-> cls])

\* what get_node_class hands back when the tag is registered
Found(cls) == [raised |-> "none", cls |-> cls, message |-> <<>>]

GetNodeClassLenient(type_name) ==
    IF type_name \notin Registry THEN Found("formula")
    ELSE Found(registry[IndexOf(ListNodeTypes, type_name)].cls)

\* get_node_class: the class, or KeyError with the unknown tag and the keys
\* of _REGISTRY in its message
GetNodeClass(type_name) ==
    IF type_name \notin Registry
    THEN [raised |-> "KeyError", cls |-> "",
          message |-> [unknown |-> type_name, registered |-> ListNodeTypes]]
    ELSE Found(registry[IndexOf(ListNodeTypes, type_name)].cls)

RawFormula(id, output, expression) ==
    [id |-> id, type |-> "formula", outputs |-> <<output>>, params |-> [expression |-> expression]]

RawSweep(id, outputs, sweep_var, output_var, min_val, max_val, steps) ==
    [id |-> id, type |-> "sweep", outputs |-> outputs,
     params |-> [sweep_var |-> sweep_var, output_var |-> output_var,
                 min_val |-> min_val, max_val |-> max_val, steps |-> steps]]

RawComponent(id, type, inputs_, outputs_, params) ==
    [id |-> id, type |-> type, inputs |-> inputs_, outputs |-> outputs_, params |-> params]

\* largest step count of a sweep
MaxSteps == 4

\* [min_val, max_val] of the sweeps
SweepRanges == {<<0, 10>>, <<10, 1>>}

\* total = torque * 2 and count = count + 1 feeding a sweep of torque
SweepGraph(range, steps, output_var) ==
    [nodes |-> <<RawFormula("gain", "total", [op |-> "mul", v |-> "torque", k |-> 2]),
                 RawFormula("tally", "count", [op |-> "add", v |-> "count", k |-> 1]),
                 RawSweep("sw", <<"sig">>, "torque", output_var, range[1], range[2], steps)>>,
     edges |-> <<<<"gain", "sw">>, <<"tally", "sw">>>>]

\* a feedback pair whose result depends on the order of the pair, with a
\* sweep node that has no outputs
FeedbackGraph ==
    [nodes |-> <<RawFormula("A", "a_out", ProgFeedback["A"]),
                 RawFormula("B", "b_out", ProgFeedback["B"]),
                 RawSweep("sw", <<>>, "b_out", "a_out", 0, 10, 2)>>,
     edges |-> <<<<"A", "B">>, <<"B", "A">>, <<"A", "sw">>>>]

\* a description with a type tag that is not registered
UnknownTypeGraph ==
    [nodes |-> <<RawFormula("gain", "total", [op |-> "const", v |-> "", k |-> 7]),
                 [id |-> "p1", type |-> "pump", outputs |-> <<>>, params |-> <<>>]>>,
     edges |-> <<<<"gain", "p1">>>>]

\* a description whose edge list names an id that no node carries
DanglingGraph ==
    [nodes |-> <<RawFormula("gain", "total", [op |-> "const", v |-> "", k |-> 7])>>,
     edges |-> <<<<"gain", "ghost">>>>]

GraphJsons ==
    {SweepGraph(r, n, out) : r \in SweepRanges, n \in 1..MaxSteps, out \in {"total", "count"}}
    \cup {FeedbackGraph, UnknownTypeGraph, DanglingGraph}

\* ids asked for as the sweep node: a sweep node, a formula node, no node
SweepNodeIds == {"sw", "gain", "absent"}
\* initial_state arguments
EngineInitials ==
    {EmptyStore,
     [x \in {"count"} |-> 0],
     [x \in {"torque", "count"} |-> IF x = "torque" THEN 5 ELSE 0]}

\* invocations made on one engine
MaxInvocations == 2

\* ------------------------------------------------------- GraphEngine
\* create_node: the node object of a raw node of a registered type, of the
\* class the registry holds for the tag (the field type names the class)
CreateNode(rn) ==
    LET cls == GetNodeClass(rn.type).cls
    IN IF cls = "sweep"
       THEN [type |-> "sweep", node_id |-> rn.id, outputs |-> rn.outputs,
             sweep_var |-> DictGet(rn.params, "sweep_var", ""),
             output_var |-> DictGet(rn.params, "output_var", ""),
             min_val |-> DictGet(rn.params, "min_val", 0),
             max_val |-> DictGet(rn.params, "max_val", 100),
             steps |-> DictGet(rn.params, "steps", 100)]
       ELSE IF cls = "formula"
       THEN [type |-> "formula", node_id |-> rn.id,
             expression |-> DictGet(rn.params, "expression", [op |-> "const", v |-> "", k |-> 0]),
             outputs |-> rn.outputs]
       ELSE [type |-> cls, node_id |-> rn.id, inputs |-> DictGet(rn, "inputs", <<>>),
             outputs |-> rn.outputs, params |-> rn.params]

\* self._nodes[node_id] = node
DictPut(nodes_, node) ==
    IF node.node_id \in Range(NodeKeys(nodes_))
    THEN [nodes_ EXCEPT ![IndexOf(NodeKeys(nodes_), node.node_id)] = node]
    ELSE Append(nodes_, node)

Kept(collection) == collection

\* dict.clear() and list.clear()
Cleared(collection) == <<>>

\* the loop over raw_nodes; stops at the first unregistered type tag
RECURSIVE AddNodes(_, _)
AddNodes(raw_nodes, nodes_) ==
    IF raw_nodes = <<>> THEN [raised |-> "none", nodes |-> nodes_, message |-> <<>>]
    ELSE IF GetNodeClass(Head(raw_nodes).type).raised # "none"
         THEN [raised |-> GetNodeClass(Head(raw_nodes).type).raised, nodes |-> nodes_,
               message |-> GetNodeClass(Head(raw_nodes).type).message]
    ELSE AddNodes(Tail(raw_nodes), DictPut(nodes_, CreateNode(Head(raw_nodes))))

\* _parse_graph on an engine holding old_nodes and old_edges
ParseGraph(old_nodes, old_edges, graph_json) ==
    LET a == AddNodes(graph_json.nodes, Cleared(old_nodes))
    IN [raised |-> a.raised,
        message |-> a.message,
        nodes |-> a.nodes,
        edges |-> IF a.raised = "none" THEN Cleared(old_edges) \o graph_json.edges
                  ELSE Cleared(old_edges)]

\* what an invocation hands back: the fields of the three result shapes
NoResult(op) ==
    [op |-> op, raised |-> "none", state |-> EmptyStore, execution_order |-> <<>>,
     node_count |-> 0, edge_count |-> 0, sweep_var |-> "", output_var |-> "",
     sweep_values |-> <<>>, signature_vector |-> <<>>, steps |-> 0, solves |-> 0,
     message |-> <<>>]

Raise(op, kind, solves) == [NoResult(op) EXCEPT !.raised = kind, !.solves = solves]

\* the error of _parse_graph leaves the invocation before anything is solved
ParseFailure(op, parsed) == [Raise(op, parsed.raised, 0) EXCEPT !.message = parsed.message]

After(result, parsed) == [result |-> result, nodes |-> parsed.nodes, edges |-> parsed.edges]

\* run(graph_json, initial_state) after _parse_graph
RunOutcomes(parsed, call, cap, threshold) ==
    IF parsed.raised # "none" THEN {After(ParseFailure("run", parsed), parsed)}
    ELSE {After(IF o.raised # "none" THEN Raise("run", o.raised, 1)
                ELSE [NoResult("run") EXCEPT !.state = o.vars,
                                             !.execution_order = o.execution_order,
                                             !.node_count = Len(parsed.nodes),
                                             !.edge_count = Len(parsed.edges),
                                             !.solves = 1],
                parsed) :
          o \in SolveOutcomes(parsed.nodes, parsed.edges, call.initial_state, cap, threshold)}

SweepLookupAsMissing(nodes_, sweep_node_id) ==
    IF sweep_node_id \notin Range(NodeKeys(nodes_)) THEN "KeyError"
    ELSE IF nodes_[IndexOf(NodeKeys(nodes_), sweep_node_id)].type # "sweep" THEN "KeyError"
    ELSE "none"

\* the lookup of the sweep node: missing, of another class, or found
SweepLookup(nodes_, sweep_node_id) ==
    IF sweep_node_id \notin Range(NodeKeys(nodes_)) THEN "KeyError"
    ELSE IF nodes_[IndexOf(NodeKeys(nodes_), sweep_node_id)].type # "sweep" THEN "TypeError"
    ELSE "none"

SampleStoreCarried(initial_state, previous_final) == previous_final

\* state = SystemState(initial_state): a new store for every sample
SampleStore(initial_state, previous_final) == initial_state

\* the loop over sweep_values once results holds the first samples;
\* previous_final is the store the previous solve ended with
RECURSIVE SweepLoop(_, _, _, _)
SweepLoop(ctx, sweep_values, previous_final, results) ==
    IF Len(results) = Len(sweep_values)
    THEN {[raised |-> "none", signature_vector |-> results, solves |-> Len(results)]}
    ELSE LET val == sweep_values[Len(results) + 1]
             start == StateSet(SampleStore(ctx.initial_state, previous_final),
                               ctx.sweep_node.sweep_var, val)
         IN UNION {IF o.raised # "none"
                   THEN {[raised |-> o.raised, signature_vector |-> <<>>,
                          solves |-> Len(results) + 1]}
                   ELSE SweepLoop(ctx, sweep_values, o.vars,
                                  Append(results, StateGet(o.vars, ctx.sweep_node.output_var))) :
                   o \in SolveOutcomes(ctx.nodes, ctx.edges, start, ctx.cap, ctx.threshold)}

\* run_sweep(graph_json, sweep_node_id, initial_state) after _parse_graph
RunSweepOutcomes(parsed, call, cap, threshold) ==
    LET found == SweepLookup(parsed.nodes, call.sweep_node_id)
        sweep_node == parsed.nodes[IndexOf(NodeKeys(parsed.nodes), call.sweep_node_id)]
        sweep_values == GetSweepRange(sweep_node)
        ctx == [nodes |-> parsed.nodes, edges |-> parsed.edges, sweep_node |-> sweep_node,
                initial_state |-> call.initial_state, cap |-> cap, threshold |-> threshold]
    IN IF parsed.raised # "none" THEN {After(ParseFailure("run_sweep", parsed), parsed)}
       ELSE IF found # "none" THEN {After(Raise("run_sweep", found, 0), parsed)}
       ELSE {After(IF s.raised # "none" THEN Raise("run_sweep", s.raised, s.solves)
                   ELSE [NoResult("run_sweep") EXCEPT !.sweep_var = sweep_node.sweep_var,
                                                      !.output_var = sweep_node.output_var,
                                                      !.sweep_values = sweep_values,
                                                      !.signature_vector = s.signature_vector,
                                                      !.steps = Len(sweep_values),
                                                      !.solves = s.solves],
                   parsed) :
             s \in SweepLoop(ctx, sweep_values, call.initial_state, <<>>)}

\* get_execution_order(graph_json) with a DAGSolver, after _parse_graph
OrderOutcomes(parsed, call, cap, threshold) ==
    IF parsed.raised # "none"
    THEN {After(ParseFailure("get_execution_order", parsed), parsed)}
    ELSE {After([NoResult("get_execution_order") EXCEPT
                     !.execution_order = KahnsSort(BuildGraph(parsed.nodes, parsed.edges))],
                parsed)}

\* an invocation from the point where _parse_graph has returned, on the node
\* map and edge list the engine holds at that point
Continue(parsed, call, cap, threshold) ==
    IF call.op = "run" THEN RunOutcomes(parsed, call, cap, threshold)
    ELSE IF call.op = "run_sweep" THEN RunSweepOutcomes(parsed, call, cap, threshold)
    ELSE OrderOutcomes(parsed, call, cap, threshold)

\* the outcomes of one invocation on an engine holding old_nodes, old_edges
Invocation(old_nodes, old_edges, call, cap, threshold) ==
    Continue(ParseGraph(old_nodes, old_edges, call.graph), call, cap, threshold)

Call(op, graph_json, sweep_node_id, initial_state) ==
    [op |-> op, graph |-> graph_json, sweep_node_id |-> sweep_node_id,
     initial_state |-> initial_state]

\* the callers that share one engine
Callers == {1, 2}

\* what the callers invoke
ConcurrentCalls ==
    {Call(op, g, "sw", st) :
        op \in {"run", "run_sweep"},
        g \in {SweepGraph(<<0, 10>>, 2, "total"), FeedbackGraph, UnknownTypeGraph},
        st \in EngineInitials}

\* ------------------------------------------------------- SignatureStore
\* a dict in insertion order: <<[key, value]>>
Keys(d) == [i \in 1..Len(d) |-> d[i].key]

ItemOf(d, key) == d[IndexOf(Keys(d), key)].value

\* d[key] = value: a present key keeps its place
PutItem(d, key, value) ==
    IF key \in Range(Keys(d)) THEN [d EXCEPT ![IndexOf(Keys(d), key)].value = value]
    ELSE Append(d, [key |-> key, value |-> value])

\* d.pop(key, None)
PopItem(d, key) == SelectSeq(d, LAMBDA item : item.key # key)

\* np.asarray(vector, dtype=np.float64) of a list of numbers
AsArray(vector) == [dtype |-> "float64", data |-> vector]

\* "metadata or {}": None and the empty dict both give an empty dict
OrEmpty(optional) == IF optional = <<>> THEN {} ELSE optional[1]

AddLibraryOnly(signatures, name, vector, metadata_) ==
    [signatures EXCEPT !.library = PutItem(@, name, AsArray(vector))]

\* SignatureStore.add
SignatureAdd(signatures, name, vector, metadata_) ==
    [library |-> PutItem(signatures.library, name, AsArray(vector)),
     metadata |-> PutItem(signatures.metadata, name, OrEmpty(metadata_))]

\* SignatureStore.remove
SignatureRemove(signatures, name) ==
    [library |-> PopItem(signatures.library, name),
     metadata |-> PopItem(signatures.metadata, name)]

SetMin(S) == CHOOSE m \in S : \A x \in S : m <= x

\* vec.min() and vec.max(): ValueError on an array of size 0
Reduce(vec, Pick(_)) ==
    IF vec.data = <<>> THEN [raised |-> "ValueError", val |-> 0]
    ELSE [raised |-> "none", val |-> Pick(Range(vec.data))]

\* the summary of one entry of list_all
Summary(name, vec, metadata_) ==
    [name |-> name, length |-> Len(vec.data), min |-> Reduce(vec, SetMin).val,
     max |-> Reduce(vec, SetMax).val,
     metadata |-> IF name \in Range(Keys(metadata_)) THEN ItemOf(metadata_, name) ELSE {}]

\* SignatureStore.list_all: the comprehension over _library.items()
ListAll(signatures) ==
    IF \E i \in 1..Len(signatures.library) :
            Reduce(signatures.library[i].value, SetMin).raised # "none"
    THEN [raised |-> "ValueError", summaries |-> <<>>]
    ELSE [raised |-> "none",
          summaries |-> [i \in 1..Len(signatures.library) |->
                            Summary(signatures.library[i].key, signatures.library[i].value,
                                    signatures.metadata)]]

\* get_library: dict(self._library)
GetLibrary(signatures) == signatures.library

\* ------------------------------------------------------- FaultComparator
Min(a, b) == IF a <= b THEN a ELSE b

\* live[:min_len]
Prefix(vec, n) == SubSeq(vec.data, 1, n)

RECURSIVE SumOf(_)
SumOf(s) == IF s = <<>> THEN 0 ELSE Head(s) + SumOf(Tail(s))

\* a - b, element by element
Minus(a, b) == [i \in 1..Len(a) |-> a[i] - b[i]]

Squares(a) == [i \in 1..Len(a) |-> a[i] * a[i]]

\* euclidean_distance: the norm of a - b, held exactly as the number it is the
\* square root of
EuclideanDistance(a, b) == [sq |-> SumOf(Squares(Minus(a, b)))]

\* cosine_similarity: dot / (norm_a * norm_b), held exactly as dot over the
\* square root of nn; 0.0 when a norm is 0
CosineSimilarity(a, b) ==
    IF SumOf(Squares(a)) = 0 \/ SumOf(Squares(b)) = 0 THEN [dot |-> 0, nn |-> 1]
    ELSE [dot |-> SumOf([i \in 1..Len(a) |-> a[i] * b[i]]),
          nn |-> SumOf(Squares(a)) * SumOf(Squares(b))]

\* c1 < c2 for two cosine similarities
CosineLess(c1, c2) ==
    IF c1.dot < 0 /\ c2.dot >= 0 THEN TRUE
    ELSE IF c1.dot >= 0 /\ c2.dot < 0 THEN FALSE
    ELSE IF c1.dot >= 0 THEN c1.dot * c1.dot * c2.nn < c2.dot * c2.dot * c1.nn
    ELSE c1.dot * c1.dot * c2.nn > c2.dot * c2.dot * c1.nn

AbsOf(a) == [i \in 1..Len(a) |-> Abs(a[i])]

\* compute_residual: np.max of an empty array raises ValueError; the mean is
\* held as a fraction and the rms as the fraction it is the square root of
ComputeResidual(live, predicted) ==
    IF live = <<>>
    THEN [raised |-> "ValueError", residual_vector |-> <<>>, max_residual |-> 0,
          mean_residual |-> [num |-> 0, den |-> 1], rms_residual |-> [num |-> 0, den |-> 1]]
    ELSE [raised |-> "none",
          residual_vector |-> Minus(live, predicted),
          max_residual |-> SetMax(Range(AbsOf(Minus(live, predicted)))),
          mean_residual |-> [num |-> SumOf(AbsOf(Minus(live, predicted))), den |-> Len(live)],
          rms_residual |-> [num |-> SumOf(Squares(Minus(live, predicted))), den |-> Len(live)]]

\* best_score = float("inf")
Infinite == [inf |-> TRUE, method |-> "", euc |-> [sq |-> 0], cos |-> [dot |-> 0, nn |-> 1]]

\* score = euc if method == "euclidean" else (1.0 - cos)
Score(euc, cos, method) == [inf |-> FALSE, method |-> method, euc |-> euc, cos |-> cos]

\* score < best_score
ScoreLess(score, best) ==
    IF best.inf THEN TRUE
    ELSE IF score.method = "euclidean" THEN score.euc.sq < best.euc.sq
    ELSE CosineLess(best.cos, score.cos)

\* one round of the loop over library.items(): the comparison entry, the
\* score, and whether compute_residual raised
Compared(live, name, stored, method) ==
    [signature |-> name,
     raised |-> ComputeResidual(Prefix(live, Min(Len(live.data), Len(stored.data))),
                                Prefix(stored, Min(Len(live.data), Len(stored.data)))).raised,
     euclidean_distance |-> EuclideanDistance(Prefix(live, Min(Len(live.data), Len(stored.data))),
                                              Prefix(stored, Min(Len(live.data), Len(stored.data)))),
     cosine_similarity |-> CosineSimilarity(Prefix(live, Min(Len(live.data), Len(stored.data))),
                                            Prefix(stored, Min(Len(live.data), Len(stored.data)))),
     max_residual |-> ComputeResidual(Prefix(live, Min(Len(live.data), Len(stored.data))),
                                      Prefix(stored, Min(Len(live.data), Len(stored.data)))).max_residual,
     rms_residual |-> ComputeResidual(Prefix(live, Min(Len(live.data), Len(stored.data))),
                                      Prefix(stored, Min(Len(live.data), Len(stored.data)))).rms_residual]

\* the loop: best_name is the first entry whose score is below every score
\* before it and not above any after it
RECURSIVE BestName(_, _, _, _)
BestName(comparisons, method, best_name, best_score) ==
    IF comparisons = <<>> THEN best_name
    ELSE IF ScoreLess(Score(Head(comparisons).euclidean_distance,
                            Head(comparisons).cosine_similarity, method), best_score)
         THEN BestName(Tail(comparisons), method, <<Head(comparisons).signature>>,
                       Score(Head(comparisons).euclidean_distance,
                             Head(comparisons).cosine_similarity, method))
         ELSE BestName(Tail(comparisons), method, best_name, best_score)

\* sorted(comparisons, key=euclidean_distance): stable
RECURSIVE SortedByDistance(_)
SortedByDistance(comparisons) ==
    IF comparisons = <<>> THEN <<>>
    ELSE LET first == CHOOSE i \in 1..Len(comparisons) :
                        \A j \in 1..Len(comparisons) :
                            \/ comparisons[i].euclidean_distance.sq < comparisons[j].euclidean_distance.sq
                            \/ /\ comparisons[i].euclidean_distance.sq = comparisons[j].euclidean_distance.sq
                               /\ i <= j
         IN <<comparisons[first]>>
            \o SortedByDistance([n \in 1..(Len(comparisons) - 1) |->
                                    comparisons[IF n < first THEN n ELSE n + 1]])

\* what diagnose hands back with an empty library
NoSignatures ==
    [raised |-> "none", closest_signature |-> <<>>, distance |-> Infinite,
     max_residual |-> 0, fault_detected |-> TRUE, all_comparisons |-> <<>>]

\* the return of diagnose for the entry best of comparisons
Diagnosis(comparisons, best, method, threshold) ==
    [raised |-> "none",
     closest_signature |-> <<best.signature>>,
     distance |-> Score(best.euclidean_distance, best.cosine_similarity, method),
     max_residual |-> best.max_residual,
     fault_detected |-> best.max_residual > threshold,
     all_comparisons |-> SortedByDistance(comparisons)]

\* diagnose after the loop over the library
Diagnosed(comparisons, best_name, method, threshold) ==
    IF \E i \in 1..Len(comparisons) : comparisons[i].raised # "none"
    THEN [NoSignatures EXCEPT !.raised = "ValueError", !.fault_detected = FALSE]
    ELSE Diagnosis(comparisons,
                   comparisons[CHOOSE i \in 1..Len(comparisons) :
                                   <<comparisons[i].signature>> = best_name],
                   method, threshold)

\* the comparison entries of the loop, in library order
Comparisons(library_, live, method) ==
    [i \in 1..Len(library_) |-> Compared(live, library_[i].key, library_[i].value, method)]

\* FaultComparator.diagnose
Diagnose(signatures, live_vector, threshold, method) ==
    IF GetLibrary(signatures) = <<>> THEN NoSignatures
    ELSE Diagnosed(Comparisons(GetLibrary(signatures), AsArray(live_vector), method),
                   BestName(Comparisons(GetLibrary(signatures), AsArray(live_vector), method),
                            method, <<>>, Infinite),
                   method, threshold)

\* the signature store and comparator of the module
VARIABLES
    signatures,             \* SignatureStore: [library, metadata], dicts in insertion order
    fault_log,              \* the calls made on the store and comparator so far
    fault_result            \* what the last call handed back

fault == <<signatures, fault_log, fault_result>>

\* ------------------------------------------------------- state of a solve
VARIABLES
    nodes,                  \* the node map (dict in insertion order)
    edges,                  \* the edge list
    state,                  \* SystemState._variables
    max_iterations,         \* DAGSolver.max_iterations
    convergence_threshold,  \* DAGSolver.convergence_threshold
    pc,                     \* position inside solve
    graph,                  \* the DiGraph built by _build_graph
    order,                  \* Kahn order of the cycle-free branch
    cycle_node_ids,
    pre_cycle,
    post_cycle,
    cycle_order,
    k,                      \* index of the running for loop over a node list
    iteration,              \* loop variable of _iterate_until_converged
    snapshot,               \* <<>> while unbound, <<dict>> once assigned
    delta_log,              \* the delta of every finished iteration (debug log)
    execution_log,          \* execution_log of _iterate_until_converged
    execution_order,
    raised                  \* "none" or the exception that left solve

\* a SystemState object and the dicts its caller holds
VARIABLES
    heap,                   \* the dict objects: contents per object
    refs,                   \* which object each reference points at
    st_op,                  \* the last call made on the SystemState
    delta_prev,             \* argument of the last delta call
    delta_result,           \* result of the last delta call
    calls                   \* number of calls made so far

solver == <<nodes, edges, state, max_iterations, convergence_threshold, pc, graph,
            order, cycle_node_ids, pre_cycle, post_cycle, cycle_order, k, iteration,
            snapshot, delta_log, execution_log, execution_order, raised>>

store == <<heap, refs, st_op, delta_prev, delta_result, calls>>

\* a GraphEngine and the last invocation made on it
VARIABLES
    eng_nodes,              \* GraphEngine._nodes
    eng_edges,              \* GraphEngine._edges
    eng_call,               \* arguments of the last invocation
    eng_result,             \* what the last invocation handed back
    invocations,            \* number of invocations made so far
    threads                 \* the invocations in progress, per caller

engine == <<eng_nodes, eng_edges, eng_call, eng_result, invocations, threads>>

\* what the engine holds between the steps of one invocation
engine_held == <<eng_nodes, eng_edges, eng_call, eng_result, invocations>>

core == <<registry, registrations, computed, fault>>

others == <<store, engine, core>>

vars == <<solver, others>>

inputs == <<nodes, edges, max_iterations, convergence_threshold>>

plan == <<graph, order, cycle_node_ids, pre_cycle, post_cycle>>

loop == <<iteration, snapshot, delta_log>>

EmptyGraph == [nodes |-> <<>>, succ |-> <<>>, pred |-> <<>>]
\* ------------------------------------------------------- SystemState as an object
\* names and values used on a SystemState under test
StoreNames == {"a", "b"}

StoreValues == {0, 1, 3}

\* the initial argument of SystemState(...): None or empty, or a dict
StoreInitials == {EmptyStore, [x \in {"a"} |-> 1], [x \in {"a", "b"} |-> IF x = "a" THEN 0 ELSE 3]}

\* arguments of update(...)
UpdateArgs == {[x \in {"b"} |-> 1], [x \in {"a", "b"} |-> 3]}

\* arguments of delta(...) besides a snapshot taken earlier
DeltaArgs == {EmptyStore, [x \in {"b"} |-> 0], [x \in {"a", "b"} |-> IF x = "a" THEN 3 ELSE 1]}

\* number of calls made on one SystemState
MaxCalls == 3

\* update(values): self._variables.update(values)
StateUpdate(vars_, values) ==
    [x \in (DOMAIN vars_) \cup (DOMAIN values) |-> IF x \in DOMAIN values THEN values[x] ELSE vars_[x]]

InitAliased(initial_ref) == initial_ref

\* __init__: dict(initial) is a new dict object
InitObject(initial_ref) == "variables"

SnapshotAliased(variables_ref) == variables_ref

\* snapshot(): copy.deepcopy(self._variables) is a new dict object
SnapshotObject(variables_ref) == "snapshot"

ToDictAliased(variables_ref) == variables_ref

\* to_dict(): dict(self._variables) is a new dict object
ToDictObject(variables_ref) == "copy"

\* the dict objects; one that does not exist yet is shown empty
Objects == {"initial", "variables", "snapshot", "copy"}

\* no SystemState under test
NoStore ==
    /\ heap = [o \in Objects |-> EmptyStore]
    /\ refs = [r \in {"variables", "snapshot", "copy"} |-> "none"]
    /\ st_op = "none"
    /\ delta_prev = EmptyStore
    /\ delta_result = [inf |-> FALSE, val |-> 0]
    /\ calls = 0
\* no node created and computed on its own
NoCompute == [raised |-> "none", node |-> <<>>, before |-> EmptyStore, after |-> EmptyStore,
              error |-> <<>>, reached |-> {}]

\* SignatureStore(): both dicts empty
NoLibrary == [library |-> <<>>, metadata |-> <<>>]

\* what a call on the store or the comparator hands back
NoOutcome(op) == [op |-> op, raised |-> "none", summaries |-> <<>>, diagnosis |-> NoSignatures]

\* the modules as imported: the built-in registry, an empty signature store
Imported ==
    /\ registry = DefaultRegistry
    /\ registrations = <<>>
    /\ computed = NoCompute
    /\ signatures = NoLibrary
    /\ fault_log = <<>>
    /\ fault_result = NoOutcome("none")

\* GraphEngine(): no node, no edge, nothing invoked yet
EngineConstructed ==
    /\ eng_nodes = <<>>
    /\ eng_edges = <<>>
    /\ eng_call = Call("none", [nodes |-> <<>>, edges |-> <<>>], "", EmptyStore)
    /\ eng_result = NoResult("none")
    /\ invocations = 0
    /\ threads = <<>>

\* a constructed DAGSolver before solve is called
Constructed(cap, threshold) ==
    /\ max_iterations = cap
    /\ convergence_threshold = threshold
    /\ pc = "idle"
    /\ nodes = <<>>
    /\ edges = <<>>
    /\ state = EmptyStore
    /\ graph = EmptyGraph
    /\ order = <<>>
    /\ cycle_node_ids = {}
    /\ pre_cycle = <<>>
    /\ post_cycle = <<>>
    /\ cycle_order = <<>>
    /\ k = 1
    /\ iteration = 0
    /\ snapshot = <<>>
    /\ delta_log = <<>>
    /\ execution_log = <<>>
    /\ execution_order = <<>>
    /\ raised = "none"

Init == NoStore /\ EngineConstructed /\ Imported /\ \E cap \in 0..MaxCap : Constructed(cap, 1)

InNodes(node_id) == node_id \in Range(NodeKeys(nodes))

NodeOf(node_id) == nodes[IndexOf(NodeKeys(nodes), node_id)]

\* solve(ns, es, st), cycle-free branch: build the graph, find no cycle, sort
PlanDagCall(ns, es, st) ==
    /\ pc = "idle"
    /\ LET g == BuildGraph(ns, es)
       IN /\ SimpleCycles(g) = {}
          /\ nodes' = ns
          /\ edges' = es
          /\ state' = st
          /\ graph' = g
          /\ order' = KahnsSort(g)
    /\ pc' = "dag"
    /\ k' = 1
    /\ UNCHANGED <<others, max_iterations, convergence_threshold, cycle_node_ids, pre_cycle,
                   post_cycle, cycle_order, loop, execution_log, execution_order, raised>>

PlanDag ==
    /\ pc = "idle"
    /\ \E ns \in NodeMaps, es \in EdgeLists, st \in InitialStates : PlanDagCall(ns, es, st)

\* solve(ns, es, st), mixed branch: classify the nodes, sort the cycle-free
\* ones and split them into pre_cycle and post_cycle
PlanMixedCall(ns, es, st) ==
    /\ pc = "idle"
    /\ LET g == BuildGraph(ns, es)
           cycles == SimpleCycles(g)
           cyc == CycleNodeIds(cycles)
           acyclic_node_ids == Range(g.nodes) \ cyc
           acyclic_order == KahnsSort(Subgraph(g, acyclic_node_ids))
           Post(nid) == DependsOnCycle(g, nid, cyc)
           Pre(nid) == ~DependsOnCycle(g, nid, cyc)
       IN /\ cycles # {}
          /\ nodes' = ns
          /\ edges' = es
          /\ state' = st
          /\ graph' = g
          /\ cycle_node_ids' = cyc
          /\ pre_cycle' = SelectSeq(acyclic_order, Pre)
          /\ post_cycle' = SelectSeq(acyclic_order, Post)
    /\ pc' = "pre"
    /\ k' = 1
    /\ UNCHANGED <<others, max_iterations, convergence_threshold, order, cycle_order, loop,
                  execution_log, execution_order, raised>>

PlanMixed ==
    /\ pc = "idle"
    /\ \E ns \in NodeMaps, es \in EdgeLists, st \in InitialStates : PlanMixedCall(ns, es, st)

InvokeCarryingOn(ids, toLog) ==
    /\ k <= Len(ids)
    /\ k' = k + 1
    /\ IF ~InNodes(ids[k])
       THEN UNCHANGED <<state, execution_log, execution_order, raised, pc>>
       ELSE LET r == Compute(NodeOf(ids[k]), state)
            IN IF r.raised
               THEN /\ raised' = "ValueError"
                    /\ UNCHANGED <<state, execution_log, execution_order, pc>>
               ELSE /\ state' = r.vars
                    /\ IF toLog
                       THEN /\ execution_log' = Append(execution_log, ids[k])
                            /\ UNCHANGED execution_order
                       ELSE /\ execution_order' = Append(execution_order, ids[k])
                            /\ UNCHANGED execution_log
                    /\ UNCHANGED <<raised, pc>>

\* one round of "for node_id in <list>: if node_id in nodes: compute; append"
\* at position pc over the list ids, appending to the log named by toLog
Invoke(ids, toLog) ==
    /\ k <= Len(ids)
    /\ k' = k + 1
    /\ IF ~InNodes(ids[k])
       THEN UNCHANGED <<state, execution_log, execution_order, raised, pc>>
       ELSE LET r == Compute(NodeOf(ids[k]), state)
            IN IF r.raised
               THEN /\ raised' = "ValueError"
                    /\ pc' = "raised"
                    /\ UNCHANGED <<state, execution_log, execution_order>>
               ELSE /\ state' = r.vars
                    /\ IF toLog
                       THEN /\ execution_log' = Append(execution_log, ids[k])
                            /\ UNCHANGED execution_order
                       ELSE /\ execution_order' = Append(execution_order, ids[k])
                            /\ UNCHANGED execution_log
                    /\ UNCHANGED <<raised, pc>>
\* the cycle-free loop, pruning the edge list of the edges it skips over
RunDagPruning ==
    /\ pc = "dag"
    /\ Invoke(order, FALSE)
    /\ edges' = SelectSeq(edges, LAMBDA e : InNodes(e[1]) /\ InNodes(e[2]))
    /\ UNCHANGED <<others, nodes, max_iterations, convergence_threshold, plan, cycle_order, loop>>

RunDag ==
    /\ pc = "dag"
    /\ Invoke(order, FALSE)
    /\ UNCHANGED <<others, inputs, plan, cycle_order, loop>>

DagReturn ==
    /\ pc = "dag"
    /\ k > Len(order)
    /\ pc' = "done"
    /\ UNCHANGED <<others, inputs, plan, state, cycle_order, k, loop, execution_log,
                   execution_order, raised>>

RunPre ==
    /\ pc = "pre"
    /\ Invoke(pre_cycle, FALSE)
    /\ UNCHANGED <<others, inputs, plan, cycle_order, loop>>

\* _resolve_cycle_order, after the pre-cycle nodes
ResolveCycleOrder ==
    /\ pc = "pre"
    /\ k > Len(pre_cycle)
    /\ cycle_order' \in CycleOrders(graph, cycle_node_ids)
    /\ pc' = "iterate"
    /\ UNCHANGED <<others, inputs, plan, state, k, loop, execution_log, execution_order, raised>>

\* the head of "for iteration in range(1, max_iterations + 1)": snapshot
IterBegin ==
    /\ pc = "iterate"
    /\ RangeHasNext(iteration, max_iterations)
    /\ iteration' = iteration + 1
    /\ snapshot' = <<state>>
    /\ k' = 1
    /\ pc' = "cycle"
    /\ UNCHANGED <<others, inputs, plan, state, cycle_order, delta_log, execution_log,
                   execution_order, raised>>

RunCycle ==
    /\ pc = "cycle"
    /\ Invoke(cycle_order, TRUE)
    /\ UNCHANGED <<others, inputs, plan, cycle_order, loop>>

\* the end of one iteration: delta, then break when converged
IterEnd ==
    /\ pc = "cycle"
    /\ k > Len(cycle_order)
    /\ LET delta == StateDelta(state, snapshot[1])
       IN /\ delta_log' = Append(delta_log, delta)
          /\ IF Converged(delta, convergence_threshold)
             THEN /\ execution_order' = execution_order \o execution_log
                  /\ pc' = "post"
                  /\ k' = 1
             ELSE /\ pc' = "iterate"
                  /\ UNCHANGED <<execution_order, k>>
    /\ UNCHANGED <<others, inputs, plan, state, cycle_order, iteration, snapshot,
                   execution_log, raised>>

\* the else clause of the for loop: the warning evaluates
\* state.delta(snapshot), then the log is returned
IterExhausted ==
    /\ pc = "iterate"
    /\ ~RangeHasNext(iteration, max_iterations)
    /\ snapshot # <<>>
    /\ execution_order' = execution_order \o execution_log
    /\ pc' = "post"
    /\ k' = 1
    /\ UNCHANGED <<others, inputs, plan, state, cycle_order, loop, execution_log, raised>>

\* the else clause when the loop body never ran: snapshot is unbound
IterExhaustedUnbound ==
    /\ pc = "iterate"
    /\ ~RangeHasNext(iteration, max_iterations)
    /\ snapshot = <<>>
    /\ raised' = "UnboundLocalError"
    /\ pc' = "raised"
    /\ UNCHANGED <<others, inputs, plan, state, cycle_order, k, loop, execution_log,
                   execution_order>>

RunPost ==
    /\ pc = "post"
    /\ Invoke(post_cycle, FALSE)
    /\ UNCHANGED <<others, inputs, plan, cycle_order, loop>>

PostReturn ==
    /\ pc = "post"
    /\ k > Len(post_cycle)
    /\ pc' = "done"
    /\ UNCHANGED <<others, inputs, plan, state, cycle_order, k, loop, execution_log,
                   execution_order, raised>>

\* the steps of solve after the plan
Run ==
    \/ RunDag
    \/ DagReturn
    \/ RunPre
    \/ ResolveCycleOrder
    \/ IterBegin
    \/ RunCycle
    \/ IterEnd
    \/ IterExhausted
    \/ IterExhaustedUnbound
    \/ RunPost
    \/ PostReturn

Next ==
    \/ PlanDag
    \/ PlanMixed
    \/ Run

Spec == Init /\ [][Next]_vars

TypeOK ==
    /\ pc \in {"idle", "dag", "pre", "iterate", "cycle", "post", "done", "raised"}
    /\ iteration \in 0..(MaxCap + 1)
    /\ raised \in {"none", "ValueError", "UnboundLocalError"}

\* ------------------------------------------------------- vocabulary of the properties
\* the edges as a relation, and its transitive closure
EdgeRel == Range(edges)

Compose(R) == R \cup {<<a, c>> \in Ids \X Ids : \E b \in Ids : <<a, b>> \in R /\ <<b, c>> \in R}

RECURSIVE Closure(_, _)
Closure(R, n) == IF n = 0 THEN R ELSE Closure(Compose(R), n - 1)

\* n lies on a directed cycle: it reaches itself through one or more edges
OnCycle(n) == <<n, n>> \in Closure(EdgeRel, Cardinality(Ids))

HasCycle == \E n \in Ids : OnCycle(n)

MapIds == Range(NodeKeys(nodes))

CyclicMapIds == {n \in MapIds : OnCycle(n)}

AcyclicMapIds == {n \in MapIds : ~OnCycle(n)}

\* an acyclic node with a cyclic direct predecessor
IsPostCycle(n) == ~OnCycle(n) /\ \E e \in EdgeRel : e[2] = n /\ OnCycle(e[1])

IsPreCycle(n) == ~OnCycle(n) /\ ~IsPostCycle(n)

\* the compute invocations so far, in invocation order
Invocations ==
    IF pc \in {"iterate", "cycle"} THEN execution_order \o execution_log ELSE execution_order

Before(s, u, v) == u \in Range(s) /\ IndexOf(s, u) < IndexOf(s, v)

\* C1: in a graph with no cycles, for every edge (u, v) with both endpoints
\* in the node map, u's compute is invoked before v's: v never runs unless u
\* ran earlier, and both have run when solve returns
C1_TopologicalOrder ==
    ~HasCycle =>
        \A e \in EdgeRel :
            (e[1] \in MapIds /\ e[2] \in MapIds) =>
                /\ e[2] \in Range(execution_order) => Before(execution_order, e[1], e[2])
                /\ pc = "done" => e[2] \in Range(execution_order)

C1_Witness ==
    /\ pc = "done"
    /\ ~HasCycle
    /\ {<<"C", "B">>, <<"B", "A">>} \subseteq EdgeRel
    /\ execution_order = <<"C", "B", "A">>

\* C2: in a graph with a cycle, for every edge (u, v) between two acyclic
\* nodes of the node map, u's compute is invoked before v's
C2_AcyclicEdgeOrder ==
    (HasCycle /\ pc # "raised") =>
        \A e \in EdgeRel :
            (e[1] \in AcyclicMapIds /\ e[2] \in AcyclicMapIds /\ e[2] \in Range(Invocations)) =>
                Before(Invocations, e[1], e[2])

\* C3: in a graph with a cycle, for every edge (a, c) from an acyclic node a
\* to a cyclic node c, a's compute is invoked before the first compute of c
C3_AcyclicBeforeCyclic ==
    (HasCycle /\ pc # "raised") =>
        \A e \in EdgeRel :
            (e[1] \in AcyclicMapIds /\ e[2] \in CyclicMapIds /\ e[2] \in Range(Invocations)) =>
                Before(Invocations, e[1], e[2])

BlockOf(n) == IF OnCycle(n) THEN 2 ELSE IF IsPostCycle(n) THEN 3 ELSE 1

\* C5: in a graph with cycles the invocations are the pre-cycle block, then
\* the cyclic block, then the post-cycle block: no cyclic node runs before a
\* pre-cycle node, no post-cycle node before a cyclic or a pre-cycle node
C5_ThreeBlocks ==
    (HasCycle /\ pc # "raised") =>
        \A i, j \in 1..Len(Invocations) :
            i < j => BlockOf(Invocations[i]) <= BlockOf(Invocations[j])

C5_Witness ==
    /\ pc = "done"
    /\ HasCycle
    /\ \E i, j, l \in 1..Len(execution_order) :
        /\ IsPreCycle(execution_order[i])
        /\ OnCycle(execution_order[j])
        /\ IsPostCycle(execution_order[l])

\* C6: the nodes classified cyclic are exactly the nodes that reach
\* themselves, the nodes sorted as acyclic are exactly the others, and the
\* mixed branch is taken exactly when such a node exists
C6_CyclicClassification ==
    pc # "idle" =>
        /\ cycle_node_ids = {n \in Range(graph.nodes) : OnCycle(n)}
        /\ pc = "dag" => ~HasCycle
        /\ pc \in {"pre", "iterate", "cycle", "post"} =>
            /\ HasCycle
            /\ Range(pre_cycle) \cup Range(post_cycle) = Range(graph.nodes) \ cycle_node_ids
            /\ Range(pre_cycle) \cap Range(post_cycle) = {}

C6_Witness ==
    /\ pc = "post"
    /\ cycle_node_ids = {"A", "B"}
    /\ <<"A", "A">> \notin EdgeRel
    /\ <<"B", "B">> \notin EdgeRel
    /\ post_cycle = <<"C">>

\* the entries of the execution order that are cyclic nodes
CyclicPart == Filter(execution_order, {n \in Ids : OnCycle(n)})

\* C7: when solve returns, the cyclic part of the execution order is
\* iteration >= 1 repetitions of one sequence that lists every cyclic node
\* of the node map exactly once
C7_CyclicRepetitions ==
    (pc = "done" /\ HasCycle) =>
        /\ iteration >= 1
        /\ \E seq \in Perms(CyclicMapIds) :
            /\ Len(CyclicPart) = iteration * Len(seq)
            /\ \A p \in 1..Len(CyclicPart) : CyclicPart[p] = seq[((p - 1) % Len(seq)) + 1]

C7_Witness ==
    /\ pc = "done"
    /\ Cardinality(CyclicMapIds) >= 2
    /\ iteration >= 2
    /\ Len(CyclicPart) = iteration * Cardinality(CyclicMapIds)

\* the store differs from the snapshot by less than the threshold on every
\* shared key, and the snapshot is not empty
BelowThreshold(vars_, snap) ==
    /\ DOMAIN snap # {}
    /\ \A key \in (DOMAIN vars_) \cap (DOMAIN snap) :
        Abs(vars_[key] - snap[key]) < convergence_threshold

IterationOver == pc = "cycle" /\ k > Len(cycle_order)

\* C8: the cyclic block stops after an iteration exactly when that
\* iteration's delta is below the threshold or the iteration was the last
\* the cap allows; otherwise the next iteration runs
C8_StopRule ==
    [][/\ (IterationOver /\ BelowThreshold(state, snapshot[1])) => pc' = "post"
       /\ (IterationOver /\ ~BelowThreshold(state, snapshot[1])) => pc' = "iterate"
       /\ (pc = "iterate" /\ iteration >= 1 /\ iteration < max_iterations) =>
            (pc' = "cycle" /\ iteration' = iteration + 1)
       /\ (pc = "iterate" /\ iteration >= 1 /\ iteration >= max_iterations) => pc' = "post"]_vars

C8_Witness ==
    /\ pc = "post"
    /\ iteration >= 2
    /\ iteration < max_iterations
    /\ BelowThreshold(state, snapshot[1])

\* C9: for every iteration cap, when the iteration budget of a cyclic block
\* is exhausted solve raises nothing, keeps the store and goes on with the
\* post-cycle nodes
C9_SoftNonConvergence ==
    [][(pc = "iterate" /\ iteration >= max_iterations) =>
            (pc' = "post" /\ raised' = "none" /\ state' = state)]_vars

Terminated == pc \in {"done", "raised"}

C10_Bounded ==
    /\ iteration <= max_iterations
    /\ Len(Invocations) <= Cardinality(AcyclicMapIds) + max_iterations * Cardinality(CyclicMapIds)

\* C10: the iterations of the cyclic block never exceed the cap, the number
\* of compute invocations never exceeds |acyclic nodes| + cap * |cyclic
\* nodes|, and every solve that was called ends (returns or raises)
C10_Terminates == []C10_Bounded /\ (pc # "idle" ~> Terminated)

C10_Witness ==
    /\ pc = "done"
    /\ max_iterations >= 2
    /\ iteration = max_iterations
    /\ Len(delta_log) = iteration
    /\ (delta_log[iteration].inf \/ delta_log[iteration].val >= convergence_threshold)
    /\ Cardinality(CyclicMapIds) >= 2
    /\ Len(execution_order) = Cardinality(AcyclicMapIds) + max_iterations * Cardinality(CyclicMapIds)

\* solve is synchronous and runs to completion: once called, its next step is taken
FairSpec == Init /\ [][Next]_vars /\ WF_vars(Run)

\* ------------------------------------------------------- C11
\* the map ids whose output variable the expression of n reads
WritersRead(n) ==
    IF NodeOf(n).expression.op = "const" THEN {}
    ELSE {m \in MapIds : NodeOf(m).outputs[1] = NodeOf(n).expression.v}

ReadsOnlyPredecessors == \A n \in MapIds : \A m \in WritersRead(n) : <<m, n>> \in EdgeRel

EquationHolds(n) ==
    /\ NodeOf(n).outputs[1] \in DOMAIN state
    /\ Eval(NodeOf(n).expression, state).ok
    /\ state[NodeOf(n).outputs[1]] = Eval(NodeOf(n).expression, state).val

IsChain == nodes = [i \in 1..Len(IdPool) |-> MakeNode(IdPool[i], ProgChain)]

\* C11: when a solve of an acyclic graph returns and every variable a node
\* reads is written only by direct predecessors of that node, the final
\* store satisfies the equation of every node of the map; for the chain
\* A = 2, B = A x 2, C = B + 10 it holds a_out = 2, b_out = 4, c_out = 14
C11_FinalStoreSatisfiesEquations ==
    (pc = "done" /\ ~HasCycle /\ ReadsOnlyPredecessors) =>
        /\ \A n \in MapIds : EquationHolds(n)
        /\ IsChain => (state["a_out"] = 2 /\ state["b_out"] = 4 /\ state["c_out"] = 14)

C11_Witness ==
    /\ pc = "done"
    /\ ~HasCycle
    /\ ReadsOnlyPredecessors
    /\ IsChain
    /\ state = [x \in {"a_out", "b_out", "c_out"} |->
                  IF x = "a_out" THEN 2 ELSE IF x = "b_out" THEN 4 ELSE 14]
    /\ execution_order = <<"A", "B", "C">>

\* ------------------------------------------------------- the scenarios
ScenarioInit == NoStore /\ EngineConstructed /\ Imported /\ \E cap \in ScenarioCaps : Constructed(cap, TestThreshold)

ScenarioPlanDag ==
    /\ pc = "idle"
    /\ \E c \in Scenarios : PlanDagCall(c.nodes, c.edges, c.state)

ScenarioPlanMixed ==
    /\ pc = "idle"
    /\ \E c \in Scenarios : PlanMixedCall(c.nodes, c.edges, c.state)

ScenarioNext ==
    \/ ScenarioPlanDag
    \/ ScenarioPlanMixed
    \/ Run

ScenarioSpec == ScenarioInit /\ [][ScenarioNext]_vars

\* ------------------------------------------------------- C12
IsFeedbackTest ==
    /\ nodes = <<NodeX, NodeY>>
    /\ edges = FeedbackEdges
    /\ max_iterations = TestMaxIterations
    /\ convergence_threshold = TestThreshold

Near(value, target, tolerance) == Abs(value - target) < tolerance

\* C12: for X: x = 0.5 y + 1 and Y: y = 0.3 x + 2 from x = 0, y = 0 with
\* threshold 0.001 and cap 200 the solve never raises, and when the cyclic
\* block is left it was left by convergence, after more than one iteration
\* and before the cap, with |x - 2.3529| < 0.01 and |y - 2.7059| < 0.01
C12_FeedbackConverges ==
    IsFeedbackTest =>
        /\ pc # "raised"
        /\ pc \in {"post", "done"} =>
            /\ iteration > 1
            /\ iteration < max_iterations
            /\ Converged(delta_log[iteration], convergence_threshold)
            /\ Near(state["x_val"], 2352900, Scale \div 100)
            /\ Near(state["y_val"], 2705900, Scale \div 100)

C12_Witness ==
    /\ IsFeedbackTest
    /\ pc = "done"
    /\ iteration = 6
    /\ Len(execution_order) = 12

\* ------------------------------------------------------- calls on a SystemState
\* SystemState(initial), initial being the caller's dict object "initial"
StoreInit ==
    /\ Constructed(0, 1)
    /\ EngineConstructed
    /\ Imported
    /\ \E initial \in StoreInitials :
        LET own == InitObject("initial")
        IN /\ heap = [o \in Objects |-> IF o \in {"initial", own} THEN initial ELSE EmptyStore]
           /\ refs = [r \in {"variables", "snapshot", "copy"} |->
                        IF r = "variables" THEN own ELSE "none"]
    /\ st_op = "new"
    /\ delta_prev = EmptyStore
    /\ delta_result = [inf |-> FALSE, val |-> 0]
    /\ calls = 0

Called(op) ==
    /\ calls < MaxCalls
    /\ calls' = calls + 1
    /\ st_op' = op
    /\ UNCHANGED <<solver, engine, core>>

\* set(name, value)
StSet ==
    /\ Called("set")
    /\ \E name \in StoreNames, value \in StoreValues :
        heap' = [heap EXCEPT ![refs.variables] = StateSet(@, name, value)]
    /\ UNCHANGED <<refs, delta_prev, delta_result>>

\* update(values)
StUpdate ==
    /\ Called("update")
    /\ \E values \in UpdateArgs :
        heap' = [heap EXCEPT ![refs.variables] = StateUpdate(@, values)]
    /\ UNCHANGED <<refs, delta_prev, delta_result>>

\* snap = snapshot()
StSnapshot ==
    /\ Called("snapshot")
    /\ LET target == SnapshotObject(refs.variables)
       IN /\ heap' = [heap EXCEPT ![target] = heap[refs.variables]]
          /\ refs' = [refs EXCEPT !.snapshot = target]
    /\ UNCHANGED <<delta_prev, delta_result>>

\* d = to_dict()
StToDict ==
    /\ Called("to_dict")
    /\ LET target == ToDictObject(refs.variables)
       IN /\ heap' = [heap EXCEPT ![target] = heap[refs.variables]]
          /\ refs' = [refs EXCEPT !.copy = target]
    /\ UNCHANGED <<delta_prev, delta_result>>

\* the caller writes into a dict it was handed: snap[name] = value or
\* d[name] = value
StMutateReturned ==
    /\ Called("mutate")
    /\ \E r \in {"snapshot", "copy"}, name \in StoreNames, value \in StoreValues :
        /\ refs[r] # "none"
        /\ heap' = [heap EXCEPT ![refs[r]] = StateSet(@, name, value)]
    /\ UNCHANGED <<refs, delta_prev, delta_result>>

\* delta(previous_snapshot) with a dict of the caller or the snapshot held
StDelta ==
    /\ Called("delta")
    /\ \E previous_snapshot \in DeltaArgs \cup {heap[refs.snapshot] : r \in {refs.snapshot} \ {"none"}} :
        /\ delta_prev' = previous_snapshot
        /\ delta_result' = StateDelta(heap[refs.variables], previous_snapshot)
    /\ UNCHANGED <<heap, refs>>

StoreNext ==
    \/ StSet
    \/ StUpdate
    \/ StSnapshot
    \/ StToDict
    \/ StMutateReturned
    \/ StDelta

StoreSpec == StoreInit /\ [][StoreNext]_vars

\* ------------------------------------------------------- C13
StoreVariables == heap[refs.variables]

SharedNames == (DOMAIN StoreVariables) \cap (DOMAIN delta_prev)

Difference(name) ==
    IF StoreVariables[name] < delta_prev[name]
    THEN delta_prev[name] - StoreVariables[name]
    ELSE StoreVariables[name] - delta_prev[name]

\* C13: delta against a non-empty previous snapshot is finite and equals the
\* largest absolute difference over the names held on both sides, 0 when no
\* name is shared; a name held on one side only contributes nothing
C13_DeltaIsMaxOverShared ==
    (st_op = "delta" /\ DOMAIN delta_prev # {}) =>
        /\ ~delta_result.inf
        /\ SharedNames = {} => delta_result.val = 0
        /\ SharedNames # {} =>
            /\ \E name \in SharedNames : Difference(name) = delta_result.val
            /\ \A name \in SharedNames : Difference(name) <= delta_result.val

C13_Witness ==
    /\ st_op = "delta"
    /\ SharedNames = {"a"}
    /\ DOMAIN StoreVariables # DOMAIN delta_prev
    /\ StoreVariables["a"] < delta_prev["a"]
    /\ delta_result = [inf |-> FALSE, val |-> 3]

\* ------------------------------------------------------- C14
FiniteThresholds == {convergence_threshold, TestThreshold, Scale}

\* the first iteration of a cyclic block that started on an empty store is over
FirstIterationFromEmpty ==
    /\ iteration = 1
    /\ snapshot = <<EmptyStore>>
    /\ Len(delta_log) = 1

\* C14: delta against an empty snapshot is the unbounded sentinel for every
\* store, below no finite threshold; so a cyclic block that starts on an
\* empty store is not declared converged after its first iteration (it is
\* left after one iteration only when the cap is one)
C14_EmptySnapshotUnbounded ==
    /\ StateDelta(state, EmptyStore).inf
    /\ \A t \in FiniteThresholds : ~Converged(StateDelta(state, EmptyStore), t)
    /\ FirstIterationFromEmpty =>
        /\ delta_log[1].inf
        /\ ~Converged(delta_log[1], convergence_threshold)
        /\ pc \in {"post", "done"} => max_iterations = 1

C14_Witness ==
    /\ FirstIterationFromEmpty
    /\ state # EmptyStore
    /\ max_iterations > 1
    /\ pc = "iterate"

\* ------------------------------------------------------- C15
Held(r) == heap[refs[r]]

\* C15: a snapshot and a to_dict copy are dicts of their own: a set or update
\* call on the store leaves every dict handed out earlier as it was, and a
\* write of the caller into such a dict leaves the store as it was
C15_CopiesAreIndependent ==
    [][/\ st_op' \in {"set", "update"} =>
            \A r \in {"snapshot", "copy"} : refs[r] # "none" => heap'[refs[r]] = heap[refs[r]]
       /\ st_op' = "mutate" => heap'[refs.variables] = heap[refs.variables]]_vars

C15_Witness ==
    /\ refs.snapshot # "none"
    /\ refs.copy # "none"
    /\ st_op = "set"
    /\ Held("snapshot") # StoreVariables
    /\ Held("copy") # StoreVariables

\* ------------------------------------------------------- GraphEngine, one invocation at a time
EngineInit == Constructed(MaxCap, 1) /\ NoStore /\ EngineConstructed /\ Imported

\* one whole invocation on the engine
Invoked(call) ==
    \E o \in Invocation(eng_nodes, eng_edges, call, max_iterations, convergence_threshold) :
        /\ eng_nodes' = o.nodes
        /\ eng_edges' = o.edges
        /\ eng_result' = o.result
        /\ eng_call' = call
        /\ invocations' = invocations + 1
        /\ UNCHANGED <<solver, store, core, threads>>

EngineRun ==
    /\ invocations < MaxInvocations
    /\ \E g \in GraphJsons, st \in EngineInitials : Invoked(Call("run", g, "", st))

EngineRunSweep ==
    /\ invocations < MaxInvocations
    /\ \E g \in GraphJsons, id \in SweepNodeIds, st \in EngineInitials :
        Invoked(Call("run_sweep", g, id, st))

EngineGetExecutionOrder ==
    /\ invocations < MaxInvocations
    /\ \E g \in GraphJsons : Invoked(Call("get_execution_order", g, "", EmptyStore))

EngineNext ==
    \/ EngineRun
    \/ EngineRunSweep
    \/ EngineGetExecutionOrder

EngineSpec == EngineInit /\ [][EngineNext]_vars

\* ------------------------------------------------------- C16
\* the raw node with the given id in a graph description
RawOf(graph_json, id) ==
    graph_json.nodes[CHOOSE i \in 1..Len(graph_json.nodes) : graph_json.nodes[i].id = id]

SweepReturned == eng_call.op = "run_sweep" /\ eng_result.raised = "none"

Asked == RawOf(eng_call.graph, eng_call.sweep_node_id).params

\* sample i of num lies at i - 1 of num - 1 equal parts of [start, stop],
\* rounded down to the fixed-point unit
EvenlySpaced(samples, start, stop, num) ==
    \A i \in 1..num :
        /\ (num - 1) * (samples[i] - start) <= (i - 1) * (stop - start)
        /\ (i - 1) * (stop - start) < (num - 1) * (samples[i] - start + 1)

\* C16: a sweep that returns with step count N >= 1 over [min, max] hands back
\* exactly N samples and a signature vector of exactly N values; the samples
\* are evenly spaced, the first is min, the last is max when N >= 2, and N = 1
\* gives min alone
C16_SweepSamples ==
    (SweepReturned /\ Asked.steps >= 1) =>
        /\ Len(eng_result.sweep_values) = Asked.steps
        /\ Len(eng_result.signature_vector) = Asked.steps
        /\ eng_result.steps = Asked.steps
        /\ eng_result.sweep_values[1] = Asked.min_val
        /\ Asked.steps >= 2 =>
            /\ eng_result.sweep_values[Asked.steps] = Asked.max_val
            /\ EvenlySpaced(eng_result.sweep_values, Asked.min_val, Asked.max_val, Asked.steps)
        /\ Asked.steps = 1 => eng_result.sweep_values = <<Asked.min_val>>

C16_Witness ==
    /\ SweepReturned
    /\ Asked.steps = MaxSteps
    /\ Asked.min_val > Asked.max_val
    /\ eng_result.sweep_values[1] = 10
    /\ eng_result.sweep_values[MaxSteps] = 1
    /\ Len(eng_result.signature_vector) = MaxSteps

\* ------------------------------------------------------- C17
\* node map and edge list a new engine builds from the description
FreshParse(graph_json) == ParseGraph(<<>>, <<>>, graph_json)

\* the values of output_var (0 when unset) one solve of the whole graph can
\* end with, from the caller's initial assignment with sweep_var set to val
IndependentValues(val) ==
    {StateGet(o.vars, Asked.output_var) :
        o \in {o \in SolveOutcomes(FreshParse(eng_call.graph).nodes, FreshParse(eng_call.graph).edges,
                                   StateSet(eng_call.initial_state, Asked.sweep_var, val),
                                   max_iterations, convergence_threshold) : o.raised = "none"}}

\* C17: every value of the signature vector is the output variable's value
\* (0 when unset) at the end of one solve of the whole graph that starts from
\* a store holding the caller's initial assignment with the sweep variable
\* set to that sample, whatever the initial assignment held under that name;
\* nothing written while another sample was solved shows in it
C17_SamplesSolvedIndependently ==
    SweepReturned =>
        \A i \in 1..Len(eng_result.sweep_values) :
            eng_result.signature_vector[i] \in IndependentValues(eng_result.sweep_values[i])

C17_Witness ==
    /\ SweepReturned
    /\ Asked.output_var = "count"
    /\ "torque" \in DOMAIN eng_call.initial_state
    /\ eng_result.sweep_values = <<0, 5, 10>>
    /\ eng_result.signature_vector = <<1, 1, 1>>

\* ------------------------------------------------------- C18
RawIds(graph_json) == {graph_json.nodes[i].id : i \in 1..Len(graph_json.nodes)}

Builds(graph_json) == \A i \in 1..Len(graph_json.nodes) : graph_json.nodes[i].type \in Registry

\* the invocation failed with the given kind before any solve: no compute
\* ran and no sweep result exists
FailedEarly(kind) ==
    /\ eng_result.raised = kind
    /\ eng_result.solves = 0
    /\ eng_result.sweep_values = <<>>
    /\ eng_result.signature_vector = <<>>

\* C18: run_sweep on a graph that builds fails with KeyError when the sweep
\* node id is not in the node map and with TypeError when the id names a node
\* that is not a Sweep node; in both cases no compute is invoked and no sweep
\* result is produced
C18_SweepLookupErrors ==
    (eng_call.op = "run_sweep" /\ Builds(eng_call.graph)) =>
        /\ eng_call.sweep_node_id \notin RawIds(eng_call.graph) => FailedEarly("KeyError")
        /\ (/\ eng_call.sweep_node_id \in RawIds(eng_call.graph)
            /\ RawOf(eng_call.graph, eng_call.sweep_node_id).type # "sweep") => FailedEarly("TypeError")

C18_Witness ==
    /\ eng_call.op = "run_sweep"
    /\ Builds(eng_call.graph)
    /\ eng_call.sweep_node_id = "gain"
    /\ "gain" \in RawIds(eng_call.graph)
    /\ FailedEarly("TypeError")
    /\ eng_nodes # <<>>

\* ------------------------------------------------------- C19
\* what a newly constructed engine can hand back for the same arguments
FreshResults ==
    {o.result : o \in Invocation(<<>>, <<>>, eng_call, max_iterations, convergence_threshold)}

\* C19: whatever was invoked on the engine before, and whether it succeeded
\* or failed, an invocation hands back what a newly constructed engine hands
\* back for the same arguments, and leaves the engine holding the nodes and
\* edges of its own description only
C19_InvocationsAreIndependent ==
    invocations >= 1 =>
        /\ eng_result \in FreshResults
        /\ \A i \in 1..Len(eng_nodes) : eng_nodes[i].node_id \in RawIds(eng_call.graph)
        /\ \A i \in 1..Len(eng_edges) : eng_edges[i] \in Range(eng_call.graph.edges)

C19_Witness ==
    /\ invocations = 2
    /\ eng_call.op = "run"
    /\ eng_call.graph \notin {FeedbackGraph, UnknownTypeGraph}
    /\ eng_nodes # <<>>
    /\ eng_result.raised = "none"
    /\ eng_result.node_count = 3
    /\ eng_result.edge_count = 2
    /\ eng_result \in FreshResults

\* ------------------------------------------------------- GraphEngine, two callers at once
NotInvoking ==
    [pc |-> "idle", call |-> Call("none", [nodes |-> <<>>, edges |-> <<>>], "", EmptyStore),
     result |-> NoResult("none")]

ConcurrentInit ==
    /\ Constructed(MaxCap, 1)
    /\ NoStore
    /\ Imported
    /\ eng_nodes = <<>>
    /\ eng_edges = <<>>
    /\ eng_call = NotInvoking.call
    /\ eng_result = NoResult("none")
    /\ invocations = 0
    /\ threads = [t \in Callers |-> NotInvoking]

\* caller t enters run or run_sweep and gets through _parse_graph, which
\* clears and refills the engine's node map and edge list
ParseStep(t) ==
    /\ threads[t].pc = "idle"
    /\ \E call \in ConcurrentCalls :
        LET parsed == ParseGraph(eng_nodes, eng_edges, call.graph)
        IN /\ eng_nodes' = parsed.nodes
           /\ eng_edges' = parsed.edges
           /\ threads' = [threads EXCEPT ![t] =
                            IF parsed.raised # "none"
                            THEN [pc |-> "done", call |-> call,
                                  result |-> ParseFailure(call.op, parsed)]
                            ELSE [pc |-> "parsed", call |-> call, result |-> NoResult("none")]]
    /\ UNCHANGED <<solver, store, core, eng_call, eng_result, invocations>>

\* caller t runs the rest of its invocation on self._nodes and self._edges
\* as they are by then
FinishStep(t) ==
    /\ threads[t].pc = "parsed"
    /\ \E o \in Continue([raised |-> "none", message |-> <<>>, nodes |-> eng_nodes,
                          edges |-> eng_edges],
                         threads[t].call, max_iterations, convergence_threshold) :
        threads' = [threads EXCEPT ![t].pc = "done", ![t].result = o.result]
    /\ UNCHANGED <<solver, store, core, eng_nodes, eng_edges, eng_call, eng_result, invocations>>

ConcurrentParse == \E t \in Callers : ParseStep(t)

ConcurrentFinish == \E t \in Callers : FinishStep(t)

ConcurrentNext ==
    \/ ConcurrentParse
    \/ ConcurrentFinish

ConcurrentSpec == ConcurrentInit /\ [][ConcurrentNext]_vars

\* ------------------------------------------------------- C20
\* what the invocation of caller t hands back when nothing else runs
AloneResults(t) ==
    {o.result : o \in Invocation(<<>>, <<>>, threads[t].call, max_iterations, convergence_threshold)}

\* C20: when two invocations on one engine interleave, each still works on
\* its own node map and edge list and hands back what it hands back alone
C20_InterleavedInvocationsIsolated ==
    \A t \in DOMAIN threads : threads[t].pc = "done" => threads[t].result \in AloneResults(t)

\* ------------------------------------------------------- the registry and the node classes
\* register_node_type calls made on one registry
MaxRegistrations == 2

\* the tags registered over: a built-in one and two new ones
RegisteredTags == {"formula", "pump", "valve"}

\* the classes registered
RegisteredClasses == {"motor", "formula"}

\* every tag looked up
LookupTags == Range(RegistryKeys(DefaultRegistry)) \cup RegisteredTags \cup {"absent"}

\* the expressions computed on their own
Expressions ==
    {[op |-> "add", v |-> "x", k |-> 1],
     [op |-> "mul", v |-> "absent", k |-> 2],
     [op |-> "recip", v |-> "x", k |-> 6],
     [op |-> "call", v |-> "x", fn |-> "sqrt"],
     [op |-> "call", v |-> "x", fn |-> "abs"],
     [op |-> "call", v |-> "x", fn |-> "open"],
     [op |-> "attr", v |-> "x", attr |-> "real"],
     [op |-> "attr", v |-> "abs", attr |-> "__self__"]}

\* the parameter maps of the component nodes; the first leaves the defaults
ComponentParams ==
    {[label |-> "defaults"],
     [voltage |-> 0, efficiency |-> 850],
     [voltage |-> 230 * Milli, efficiency |-> 0],
     [r0 |-> 0, alpha |-> 4]}

\* the raw nodes created and computed on their own
RawNodes ==
    {RawFormula("f", out, e) : out \in {"y"}, e \in Expressions}
    \cup {[RawFormula("f", "y", [op |-> "mul", v |-> "absent", k |-> 2]) EXCEPT !.outputs = <<>>]}
    \cup {RawComponent("c", type, <<>>, outs, params) :
            type \in {"motor", "heater", "hydraulic", "pump"},
            outs \in {<<>>, <<"r", "i">>},
            params \in ComponentParams}

\* the stores the nodes are computed on
ComputeStores ==
    {EmptyStore,
     [n \in {"x"} |-> 0],
     [n \in {"x"} |-> 9],
     [n \in {"x", "y"} |-> IF n = "x" THEN -4 ELSE 1],
     [n \in {"torque", "speed"} |-> IF n = "torque" THEN 5 * Milli ELSE 60 * Milli],
     [n \in {"temperature"} |-> -225 * Milli],
     [n \in {"temperature"} |-> 125 * Milli],
     [n \in {"pressure", "flow_rate"} |-> IF n = "pressure" THEN 2 * Milli ELSE 3 * Milli]}

\* the descriptions built under the registry
RegistryGraphs == {UnknownTypeGraph, SweepGraph(<<0, 10>>, 2, "total")}

RegistryInit == Constructed(MaxCap, 1) /\ NoStore /\ EngineConstructed /\ Imported

\* nothing was built or computed yet
Pristine == invocations = 0 /\ computed = NoCompute

\* register_node_type(type_name, cls)
RegisterNodeType ==
    /\ Pristine
    /\ Len(registrations) < MaxRegistrations
    /\ \E type_name \in RegisteredTags, cls \in RegisteredClasses :
        /\ registry' = RegistryPut(registry, type_name, cls)
        /\ registrations' = Append(registrations, [tag |-> type_name, cls |-> cls])
    /\ UNCHANGED <<solver, store, engine, computed, fault>>

\* create_node(...).compute(state) on a store
CreateAndCompute ==
    /\ Pristine
    /\ \E rn \in RawNodes, st \in ComputeStores :
        LET cls == GetNodeClass(rn.type)
            node == CreateNode(rn)
            r == Compute(node, st)
        IN computed' =
            IF cls.raised # "none"
            THEN [NoCompute EXCEPT !.raised = cls.raised, !.error = cls.message,
                                   !.before = st, !.after = st]
            ELSE [raised |-> IF r.raised THEN r.error.kind ELSE "none",
                  node |-> node, before |-> st, after |-> r.vars, error |-> r.error,
                  reached |-> IF node.type = "formula" THEN Capabilities(node.expression, st)
                              ELSE {}]
    /\ UNCHANGED <<solver, store, engine, registry, registrations, fault>>

\* GraphEngine.run under the registry as it is
RegistryRun ==
    /\ Pristine
    /\ \E g \in RegistryGraphs, st \in EngineInitials :
        \E o \in Invocation(eng_nodes, eng_edges, Call("run", g, "", st),
                            max_iterations, convergence_threshold) :
            /\ eng_nodes' = o.nodes
            /\ eng_edges' = o.edges
            /\ eng_result' = o.result
            /\ eng_call' = Call("run", g, "", st)
            /\ invocations' = invocations + 1
    /\ UNCHANGED <<solver, store, core, threads>>

RegistryNext ==
    \/ RegisterNodeType
    \/ CreateAndCompute
    \/ RegistryRun

RegistrySpec == RegistryInit /\ [][RegistryNext]_vars

\* ------------------------------------------------------- C21
\* the first type tag of a description that the registry does not hold
RECURSIVE FirstUnknown(_)
FirstUnknown(raw_nodes) ==
    IF Head(raw_nodes).type \notin Registry THEN Head(raw_nodes).type
    ELSE FirstUnknown(Tail(raw_nodes))

\* C21: building a description with a type tag that is not registered fails
\* with the unknown-type error (KeyError) whose message lists the tags
\* registered at that point, and fails before anything is solved, so before
\* any compute is invoked
C21_UnknownTagFailsConstruction ==
    (eng_call.op = "run" /\ ~Builds(eng_call.graph)) =>
        /\ eng_result.raised = "KeyError"
        /\ eng_result.message = [unknown |-> FirstUnknown(eng_call.graph.nodes),
                                 registered |-> ListNodeTypes]
        /\ eng_result.solves = 0
        /\ eng_result.state = EmptyStore

C21_Witness ==
    /\ eng_call.op = "run"
    /\ eng_call.graph = UnknownTypeGraph
    /\ eng_result.raised = "KeyError"
    /\ eng_result.message.unknown = "pump"
    /\ eng_result.message.registered = RegistryKeys(DefaultRegistry) \o <<"valve">>

\* ------------------------------------------------------- C22
\* the registrations of a tag, oldest first
RegistrationsOf(tag) == SelectSeq(registrations, LAMBDA r : r.tag = tag)

\* C22: after any sequence of registrations a lookup hands back the class of
\* the last registration of the tag, or the built-in class when the tag was
\* never registered again, or fails when the tag was never registered at all;
\* so a registration changes its own tag only and no tag is ever removed
C22_LookupReturnsLastRegistration ==
    \A tag \in LookupTags :
        IF RegistrationsOf(tag) # <<>>
        THEN GetNodeClass(tag) = Found(RegistrationsOf(tag)[Len(RegistrationsOf(tag))].cls)
        ELSE IF tag \in Range(RegistryKeys(DefaultRegistry))
        THEN GetNodeClass(tag) = Found(tag)
        ELSE GetNodeClass(tag).raised = "KeyError"

C22_Witness ==
    /\ Len(registrations) = 2
    /\ registrations[1].tag = "formula"
    /\ registrations[2].tag = "formula"
    /\ registrations[1].cls # registrations[2].cls
    /\ GetNodeClass("formula").cls = registrations[2].cls

\* ------------------------------------------------------- C23
\* an edge with an endpoint that is no key of the node map
Dangling == {e \in EdgeRel : e[1] \notin MapIds \/ e[2] \notin MapIds}

\* C23: solve never adds, removes or reorders an entry of the node map or of
\* the edge list (nor changes the cap or the threshold): the graph is built
\* from them as they were given and every later step leaves them as they are,
\* whether the graph is acyclic, cyclic or has dangling edges
C23_SolveLeavesGraphAlone ==
    [][/\ pc = "idle" => /\ graph' = BuildGraph(nodes', edges')
                         /\ max_iterations' = max_iterations
                         /\ convergence_threshold' = convergence_threshold
       /\ pc # "idle" => UNCHANGED inputs]_vars

C23_Witness ==
    /\ pc = "done"
    /\ HasCycle
    /\ Dangling # {}
    /\ state # EmptyStore
    /\ Len(execution_order) > Cardinality(MapIds)

\* ------------------------------------------------------- C27
\* in-degree of n counted over the edges whose two endpoints are cyclic
InducedInDegree(n) == Cardinality({e \in EdgeRel : e[2] = n /\ OnCycle(e[1]) /\ OnCycle(e[2])})

InDegreeAscending(s) ==
    \A i, j \in 1..Len(s) : i < j => InducedInDegree(s[i]) <= InducedInDegree(s[j])

\* C27: the order of the cyclic block is computed once, before the first
\* iteration, in ascending in-degree of the sub-graph induced on the cyclic
\* nodes, and stays what it is through every iteration
C27_CycleOrderByInducedInDegree ==
    [][/\ cycle_order' # cycle_order => /\ cycle_order = <<>>
                                        /\ iteration' = 0
                                        /\ execution_log' = <<>>
                                        /\ InDegreeAscending(cycle_order')
       /\ pc' \in {"iterate", "cycle"} => /\ cycle_order' # <<>>
                                           /\ InDegreeAscending(cycle_order')]_vars

\* a block of two cyclic nodes in its second iteration which the in-degree
\* over all edges does not tell apart
C27_Witness ==
    /\ pc = "cycle"
    /\ iteration = 2
    /\ Len(cycle_order) = 2
    /\ InducedInDegree(cycle_order[1]) < InducedInDegree(cycle_order[2])
    /\ Cardinality({e \in EdgeRel : e[2] = cycle_order[1]})
         = Cardinality({e \in EdgeRel : e[2] = cycle_order[2]})

\* ------------------------------------------------------- C28
\* the position of the edge (u, v) in the edge list
EdgeIndex(u, v) == CHOOSE i \in 1..Len(edges) : edges[i] = <<u, v>> /\ \A j \in 1..(i - 1) : edges[j] # <<u, v>>

\* the predecessor of n that is sorted last: the one whose processing brings
\* the in-degree of n to zero
LastPredecessor(s, n) ==
    CHOOSE p \in {e[1] : e \in {f \in EdgeRel : f[2] = n}} :
        \A e \in EdgeRel : e[2] = n => IndexOf(s, e[1]) <= IndexOf(s, p)

\* when n enters the queue: a node without predecessor at the start, by its
\* place among the nodes; any other node when its last predecessor is
\* processed, by its place among the successors of that predecessor
EnqueuedAt(s, n) ==
    IF \A e \in EdgeRel : e[2] # n THEN <<0, IndexOf(graph.nodes, n)>>
    ELSE <<IndexOf(s, LastPredecessor(s, n)), EdgeIndex(LastPredecessor(s, n), n)>>

Earlier(a, b) == a[1] < b[1] \/ (a[1] = b[1] /\ a[2] < b[2])

\* s lists the nodes in the order in which they entered the queue
IsFifoKahnOrder(s) ==
    \A i, j \in 1..Len(s) : i < j => Earlier(EnqueuedAt(s, s[i]), EnqueuedAt(s, s[j]))

\* C28: in a graph with no cycle the nodes run in the FIFO Kahn order: the
\* nodes without predecessor first, in node order, then every other node in
\* the order in which the in-degrees reach zero, and by no other key
C28_FifoKahnOrder ==
    (pc \in {"dag", "done"} /\ ~HasCycle) =>
        /\ IsFifoKahnOrder(order)
        /\ pc = "done" => execution_order = Filter(order, MapIds)

\* three nodes where the first seed enables a node that the FIFO order runs
\* after the second seed
C28_Witness ==
    /\ pc = "done"
    /\ ~HasCycle
    /\ Dangling = {}
    /\ Len(execution_order) = 3
    /\ \E e \in EdgeRel : e[1] = execution_order[1] /\ e[2] = execution_order[3]
    /\ \A e \in EdgeRel : e[2] # execution_order[2]

\* ------------------------------------------------------- C29
\* the ids of the graph: the keys of the node map and the ids the edges name
GraphIds == MapIds \cup {e[1] : e \in EdgeRel} \cup {e[2] : e \in EdgeRel}

IsPermutationOf(s, S) == Range(s) = S /\ Len(s) = Cardinality(S)

\* C29: Kahn's sort returns every node of the graph it is given: the whole
\* graph when there is no cycle, the nodes that lie on no cycle otherwise
\* (split into pre-cycle and post-cycle), so the sort is never incomplete
C29_KahnSortComplete ==
    pc # "idle" =>
        IF HasCycle
        THEN IsPermutationOf(pre_cycle \o post_cycle, {n \in GraphIds : ~OnCycle(n)})
        ELSE IsPermutationOf(order, GraphIds)

\* a sub-graph of two acyclic nodes: one ahead of the cycle, one behind it
C29_Witness ==
    /\ pc = "done"
    /\ HasCycle
    /\ pre_cycle # <<>>
    /\ post_cycle # <<>>
    /\ raised = "none"

\* ------------------------------------------------------- C30
\* C30: when the edge list names ids that are no key of the node map, solve
\* raises no error of its own (a failing compute aside), the execution order
\* holds ids of the node map only, and every node of the node map is executed
C30_DanglingEdgesTolerated ==
    (Dangling # {} /\ pc \in {"done", "raised"} /\ raised # "ValueError") =>
        /\ raised = "none"
        /\ Range(execution_order) \subseteq MapIds
        /\ MapIds \subseteq Range(execution_order)

\* ------------------------------------------------------- C24
\* a Formula node was created and computed
FormulaComputed == computed.node # <<>> /\ computed.node.type = "formula"

\* the expression cannot be evaluated on the store: it reads a name the
\* namespace does not hold, calls a name that is not whitelisted, divides by
\* zero or takes the root of a negative number
Faulty(expression, vars_) ==
    \/ expression.op \in {"add", "mul", "recip"} /\ expression.v \notin DOMAIN vars_
    \/ expression.op = "call" /\ (expression.fn \notin SafeBuiltins \/ expression.v \notin DOMAIN vars_)
    \/ expression.op = "recip" /\ expression.v \in DOMAIN vars_ /\ vars_[expression.v] = 0
    \/ /\ expression.op = "call" /\ expression.fn = "sqrt"
       /\ expression.v \in DOMAIN vars_ /\ vars_[expression.v] < 0

\* C24: when the expression of a Formula node fails to evaluate, compute
\* fails with the evaluation error (ValueError) that names the node id and
\* the expression, and the store is left as it was: no output is written
C24_EvaluationErrorLeavesStore ==
    (FormulaComputed /\ Faulty(computed.node.expression, computed.before)) =>
        /\ computed.raised = "ValueError"
        /\ computed.error.node_id = computed.node.node_id
        /\ computed.error.expression = computed.node.expression
        /\ computed.after = computed.before

\* the root of a negative number on a store that already holds the output
\* variable
C24_Witness ==
    /\ FormulaComputed
    /\ computed.node.expression.op = "call"
    /\ computed.node.expression.fn = "sqrt"
    /\ computed.node.outputs = <<"y">>
    /\ computed.before = [n \in {"x", "y"} |-> IF n = "x" THEN -4 ELSE 1]
    /\ computed.raised = "ValueError"
    /\ computed.after = computed.before

\* ------------------------------------------------------- C25
\* a Motor, Heater or Hydraulic node was created and computed
ComponentComputed ==
    computed.node # <<>> /\ computed.node.type \in {"motor", "heater", "hydraulic"}

\* the denominator of the current is 0: efficiency x voltage of a Motor or
\* Hydraulic node, the resistance of a Heater node
ZeroDenominator ==
    LET params == computed.node.params
        temperature == StateGet(computed.before, "temperature")
    IN IF computed.node.type = "heater"
       THEN \/ DictGet(params, "r0", 10 * Milli) = 0
            \/ DictGet(params, "alpha", 4) * (temperature - DictGet(params, "t0", 25 * Milli))
                 = -(Milli * Milli)
       ELSE \/ DictGet(params, "voltage", 1) = 0
            \/ DictGet(params, "efficiency", 1) = 0

\* the variable the current is written to
CurrentName ==
    IF computed.node.type = "heater" THEN NameAt(computed.node.outputs, 2, "heater_current")
    ELSE IF computed.node.type = "motor" THEN NameAt(computed.node.outputs, 1, "motor_current")
    ELSE NameAt(computed.node.outputs, 1, "hydraulic_current")

\* C25: Motor, Heater and Hydraulic compute never fail, and when the
\* denominator of the current is 0 the current is written as 0
C25_ZeroDenominatorGivesZero ==
    ComponentComputed =>
        /\ computed.raised = "none"
        /\ CurrentName \in DOMAIN computed.after
        /\ ZeroDenominator => computed.after[CurrentName] = 0

\* a Heater with the default parameters at the temperature of resistance 0
C25_Witness ==
    /\ ComponentComputed
    /\ computed.node.type = "heater"
    /\ computed.node.params = [label |-> "defaults"]
    /\ computed.before = [n \in {"temperature"} |-> -225 * Milli]
    /\ ZeroDenominator
    /\ computed.after["heater_resistance"] = 0
    /\ computed.after["heater_current"] = 0

\* ------------------------------------------------------- C26
\* C26: the evaluation of a Formula expression gets at nothing but arithmetic
\* over the variables of the store, the whitelisted functions and pi: no
\* attribute of an object is looked up and no module is reached
C26_OnlyArithmeticReachable ==
    FormulaComputed => computed.reached = {}

\* ------------------------------------------------------- C31
OrderReturned == eng_call.op = "get_execution_order" /\ eng_result.raised = "none"

\* the description has no cycle (a self-loop counts as one)
Acyclic(graph_json) ==
    SimpleCycles(BuildGraph(FreshParse(graph_json).nodes, graph_json.edges)) = {}

\* the execution orders run reports for the description, over the initial
\* assignments a caller may pass
RunOrders(graph_json) ==
    {o.result.execution_order :
        o \in {o \in UNION {Invocation(<<>>, <<>>, Call("run", graph_json, "", st),
                                       max_iterations, convergence_threshold) :
                            st \in EngineInitials} : o.result.raised = "none"}}

\* C31: get_execution_order invokes no compute and returns every id of the
\* node map exactly once and no other id; for a graph without a cycle the
\* list is the execution order run reports for the same graph
C31_ExecutionOrderListsNodeMap ==
    OrderReturned =>
        /\ eng_result.solves = 0
        /\ eng_result.state = EmptyStore
        /\ IsPermutationOf(eng_result.execution_order, RawIds(eng_call.graph))
        /\ Acyclic(eng_call.graph) =>
            \A run_order \in RunOrders(eng_call.graph) : eng_result.execution_order = run_order

\* ------------------------------------------------------- C32
\* the iteration that ends declares the block converged (the break)
DeclaredConverged == pc = "cycle" /\ pc' = "post"

\* the names written in the iteration that the store did not hold at its start
NewInIteration == (DOMAIN state) \ (DOMAIN snapshot[1])

\* C32: an iteration in which a cyclic node wrote a variable that the store
\* did not hold when the iteration began never declares the block converged
C32_NoConvergenceOnNewVariables ==
    [][DeclaredConverged => NewInIteration = {}]_vars

\* ------------------------------------------------------- run, step by step
\* descriptions given to run: one whose second node reads a variable nothing
\* defines, after the first node wrote and ahead of the third
FailingChain ==
    [nodes |-> <<RawFormula("first", "total", [op |-> "const", v |-> "", k |-> 7]),
                 RawFormula("second", "twice", [op |-> "mul", v |-> "missing", k |-> 2]),
                 RawFormula("third", "more", [op |-> "add", v |-> "total", k |-> 1])>>,
     edges |-> <<<<"first", "second">>, <<"first", "third">>>>]

\* a seeded feedback pair between a node ahead of it and a node behind it
SeededFeedback ==
    [nodes |-> <<RawFormula("seed", "b_out", [op |-> "const", v |-> "", k |-> 0]),
                 RawFormula("A", "a_out", ProgFeedback["A"]),
                 RawFormula("B", "b_out", ProgFeedback["B"]),
                 RawFormula("last", "more", [op |-> "add", v |-> "b_out", k |-> 1])>>,
     edges |-> <<<<"seed", "A">>, <<"A", "B">>, <<"B", "A">>, <<"B", "last">>>>]

\* a Motor with no outputs named, a Heater with both and a Hydraulic with one
ComponentChain ==
    [nodes |-> <<RawComponent("m", "motor", <<"torque">>, <<>>, [label |-> "defaults"]),
                 RawComponent("h", "heater", <<>>, <<"ohms", "amps">>, [label |-> "defaults"]),
                 RawComponent("p", "hydraulic", <<"torque", "count">>, <<"draw">>,
                              [label |-> "defaults"])>>,
     edges |-> <<<<"m", "h">>, <<"h", "p">>>>]

RunGraphs ==
    {FailingChain, SeededFeedback, ComponentChain, UnknownTypeGraph,
     SweepGraph(<<0, 10>>, 2, "total")}

RunInit == Init

\* the locals of the invocation in progress
Locals(at, sweep_values, results) ==
    <<[at |-> at, sweep_values |-> sweep_values, results |-> results]>>

\* the invocation has built its SystemState and is inside or about to enter
\* solver.solve
Solving == threads # <<>> /\ threads[1].at = "solve"

\* run_sweep is at the head of its loop over sweep_values
Looping == threads # <<>> /\ threads[1].at = "loop"

\* the dict the store under solve wraps
StoreObject == heap[refs.variables]

\* SystemState(initial_state) on the caller's dict as it is by now
NewState(caller_dict) ==
    [heap EXCEPT ![InitObject("initial")] = caller_dict]

\* run, lines 64-65: _parse_graph, whose error leaves run at once, then
\* SystemState(initial_state)
RunEnter ==
    /\ pc = "idle"
    /\ threads = <<>>
    /\ invocations < MaxInvocations
    /\ \E g \in RunGraphs, st \in EngineInitials :
        LET parsed == ParseGraph(eng_nodes, eng_edges, g)
        IN /\ eng_nodes' = parsed.nodes
           /\ eng_edges' = parsed.edges
           /\ eng_call' = Call("run", g, "", st)
           /\ eng_result' = IF parsed.raised # "none" THEN ParseFailure("run", parsed)
                            ELSE NoResult("run")
           /\ threads' = IF parsed.raised # "none" THEN <<>> ELSE Locals("solve", <<>>, <<>>)
           /\ heap' = IF parsed.raised # "none" THEN [heap EXCEPT !["initial"] = st]
                      ELSE [NewState(st) EXCEPT !["initial"] = st]
           /\ refs' = IF parsed.raised # "none" THEN refs
                      ELSE [refs EXCEPT !.variables = InitObject("initial")]
    /\ invocations' = invocations + 1
    /\ UNCHANGED <<solver, core, st_op, delta_prev, delta_result, calls>>

\* run_sweep, lines 94-106: _parse_graph, the lookup of the sweep node and
\* its range
SweepEnter ==
    /\ pc = "idle"
    /\ threads = <<>>
    /\ invocations < MaxInvocations
    /\ \E g \in RunGraphs, id \in SweepNodeIds, st \in EngineInitials :
        LET parsed == ParseGraph(eng_nodes, eng_edges, g)
            found == IF parsed.raised # "none" THEN parsed.raised
                     ELSE SweepLookup(parsed.nodes, id)
        IN /\ eng_nodes' = parsed.nodes
           /\ eng_edges' = parsed.edges
           /\ eng_call' = Call("run_sweep", g, id, st)
           /\ eng_result' = IF parsed.raised # "none" THEN ParseFailure("run_sweep", parsed)
                            ELSE IF found # "none" THEN Raise("run_sweep", found, 0)
                            ELSE NoResult("run_sweep")
           /\ threads' = IF found # "none" THEN <<>>
                         ELSE Locals("loop",
                                     GetSweepRange(parsed.nodes[IndexOf(NodeKeys(parsed.nodes), id)]),
                                     <<>>)
           /\ heap' = [heap EXCEPT !["initial"] = st]
    /\ invocations' = invocations + 1
    /\ UNCHANGED <<solver, core, refs, st_op, delta_prev, delta_result, calls>>

\* the sweep node of the invocation in progress
SweepNodeOf == eng_nodes[IndexOf(NodeKeys(eng_nodes), eng_call.sweep_node_id)]

\* run_sweep, lines 108-111: a SystemState built from the caller's dict, then
\* state.set(sweep_var, val)
SampleBegin ==
    /\ Looping
    /\ Len(threads[1].results) < Len(threads[1].sweep_values)
    /\ refs' = [refs EXCEPT !.variables = InitObject("initial")]
    /\ heap' = [NewState(heap["initial"]) EXCEPT ![InitObject("initial")] =
                    StateSet(heap["initial"], SweepNodeOf.sweep_var,
                             threads[1].sweep_values[Len(threads[1].results) + 1])]
    /\ threads' = [threads EXCEPT ![1].at = "solve"]
    /\ UNCHANGED <<solver, core, engine_held, st_op, delta_prev, delta_result, calls>>

\* self.solver.solve(self._nodes, self._edges, state)
RunSolve ==
    /\ Solving
    /\ \/ PlanDagCall(eng_nodes, eng_edges, StoreObject)
       \/ PlanMixedCall(eng_nodes, eng_edges, StoreObject)

\* the locals of solve are gone once solve is left
SolveLeft ==
    /\ pc' = "idle"
    /\ nodes' = <<>>
    /\ edges' = <<>>
    /\ state' = EmptyStore
    /\ graph' = EmptyGraph
    /\ order' = <<>>
    /\ cycle_node_ids' = {}
    /\ pre_cycle' = <<>>
    /\ post_cycle' = <<>>
    /\ cycle_order' = <<>>
    /\ k' = 1
    /\ iteration' = 0
    /\ snapshot' = <<>>
    /\ delta_log' = <<>>
    /\ execution_log' = <<>>
    /\ execution_order' = <<>>
    /\ raised' = "none"
    /\ UNCHANGED <<max_iterations, convergence_threshold>>

\* the dict the store wraps holds what the solve wrote
Written ==
    /\ heap' = [heap EXCEPT ![refs.variables] = state]
    /\ UNCHANGED <<refs, st_op, delta_prev, delta_result, calls>>

\* run, lines 71-76: the result dict once solve returned
RunReturn ==
    /\ Solving
    /\ eng_call.op = "run"
    /\ pc = "done"
    /\ eng_result' = [NoResult("run") EXCEPT !.state = state,
                                             !.execution_order = execution_order,
                                             !.node_count = Len(eng_nodes),
                                             !.edge_count = Len(eng_edges),
                                             !.solves = 1]
    /\ threads' = <<>>
    /\ Written
    /\ SolveLeft
    /\ UNCHANGED <<core, eng_nodes, eng_edges, eng_call, invocations>>

\* run_sweep, lines 117-118: the output variable of the solved sample
SampleEnd ==
    /\ Solving
    /\ eng_call.op = "run_sweep"
    /\ pc = "done"
    /\ threads' = [threads EXCEPT ![1].at = "loop",
                                  ![1].results = Append(@, StateGet(state, SweepNodeOf.output_var))]
    /\ Written
    /\ SolveLeft
    /\ UNCHANGED <<core, engine_held>>

\* run_sweep, lines 120-129: the result dict after the last sample
SweepReturn ==
    /\ Looping
    /\ Len(threads[1].results) = Len(threads[1].sweep_values)
    /\ eng_result' = [NoResult("run_sweep") EXCEPT !.sweep_var = SweepNodeOf.sweep_var,
                                                   !.output_var = SweepNodeOf.output_var,
                                                   !.sweep_values = threads[1].sweep_values,
                                                   !.signature_vector = threads[1].results,
                                                   !.steps = Len(threads[1].sweep_values),
                                                   !.solves = Len(threads[1].results)]
    /\ threads' = <<>>
    /\ UNCHANGED <<solver, store, core, eng_nodes, eng_edges, eng_call, invocations>>

\* an exception leaves solve and, run and run_sweep having no handler, the
\* invocation as well
RunPropagate ==
    /\ Solving
    /\ pc = "raised"
    /\ eng_result' = Raise(eng_call.op, raised, Len(threads[1].results) + 1)
    /\ threads' = <<>>
    /\ Written
    /\ SolveLeft
    /\ UNCHANGED <<core, eng_nodes, eng_edges, eng_call, invocations>>

RunNext ==
    \/ RunEnter
    \/ SweepEnter
    \/ SampleBegin
    \/ RunSolve
    \/ Run
    \/ RunReturn
    \/ SampleEnd
    \/ SweepReturn
    \/ RunPropagate

RunSpec == RunInit /\ [][RunNext]_vars

\* ------------------------------------------------------- C33
\* a compute call raises in this step
ComputeFails == raised = "none" /\ raised' = "ValueError"

\* what run hands back when the given error left it: no field of a result
NothingBut(kind) == [NoResult("run") EXCEPT !.raised = kind, !.solves = 1]

\* C33: the step in which a compute fails ends the solve with the store and
\* the execution lists as the earlier nodes left them; the only step that
\* follows is run passing the same error on with no field of a result set and
\* the caller's arguments as they were, after which the store of the solve is
\* gone; the next solve starts from its own caller's initial assignment
C33_ComputeFailureEndsRun ==
    [][/\ ComputeFails =>
            /\ pc' = "raised"
            /\ state' = state
            /\ execution_order' = execution_order
            /\ execution_log' = execution_log
       /\ (pc = "raised" /\ raised = "ValueError" /\ eng_call.op = "run") =>
            /\ eng_result' = NothingBut("ValueError")
            /\ eng_call' = eng_call
            /\ state' = EmptyStore
            /\ pc' = "idle"
       /\ (pc = "idle" /\ pc' # "idle" /\ eng_call.op = "run") =>
            state' = eng_call.initial_state]_vars

\* in a second invocation the second node of the chain failed after the first
\* wrote; the third has not run and run has yet to pass the error on
C33_Witness ==
    /\ Solving
    /\ invocations = 2
    /\ eng_call.op = "run"
    /\ eng_call.graph = FailingChain
    /\ pc = "raised"
    /\ raised = "ValueError"
    /\ execution_order = <<"first">>
    /\ state = StateSet(eng_call.initial_state, "total", 7)
    /\ eng_result = NoResult("run")

\* ------------------------------------------------------- C34
\* the status the /sweep route answers with: KeyError is caught first and
\* turned into 404, any other exception into 400
SweepStatus(kind) ==
    IF kind = "none" THEN 200
    ELSE IF kind = "KeyError" THEN 404
    ELSE 400

\* C34: a sweep request is answered with the not-found kind (KeyError, 404)
\* only when the sweep node id is none of the graph's ids; a graph with an
\* unregistered type tag is answered with another kind
C34_NotFoundMeansSweepNodeAbsent ==
    eng_call.op = "run_sweep" =>
        /\ (eng_result.raised = "KeyError" \/ SweepStatus(eng_result.raised) = 404) =>
            eng_call.sweep_node_id \notin RawIds(eng_call.graph)
        /\ ~Builds(eng_call.graph) =>
            /\ eng_result.raised # "KeyError"
            /\ SweepStatus(eng_result.raised) # 404

\* ------------------------------------------------------- C35
\* the list solve is walking through
Walked ==
    IF pc = "dag" THEN order
    ELSE IF pc = "pre" THEN pre_cycle
    ELSE IF pc = "cycle" THEN cycle_order
    ELSE IF pc = "post" THEN post_cycle
    ELSE <<>>

\* this step is a compute call on a node of the node map
Computing == k <= Len(Walked) /\ k' = k + 1 /\ InNodes(Walked[k])

\* the variables a node of the class names as its own: outputs[0], and for
\* the Heater outputs[1], or the name the class falls back on
OwnOutputs(node) ==
    IF node.type = "heater"
    THEN {NameAt(node.outputs, 1, "heater_resistance"), NameAt(node.outputs, 2, "heater_current")}
    ELSE {NameAt(node.outputs, 1,
                 IF node.type = "motor" THEN "motor_current"
                 ELSE IF node.type = "hydraulic" THEN "hydraulic_current"
                 ELSE IF node.type = "sweep" THEN "sweep_result"
                 ELSE "formula_result")}

\* the names the step set or changed
Touched == {x \in DOMAIN state' : x \notin DOMAIN state \/ state'[x] # state[x]}

\* C35: inside a solve no step removes a variable; the store changes in
\* compute calls only, and a compute call sets or changes none but the
\* node's own output variables, at most two for a Heater and one for every
\* other class; every name of the iteration's snapshot is in the store
C35_ComputeWritesOwnOutputsOnly ==
    [][(pc # "idle" /\ pc' # "idle") =>
        /\ DOMAIN state \subseteq DOMAIN state'
        /\ Touched # {} => Computing
        /\ Computing =>
            /\ Touched \subseteq OwnOutputs(NodeOf(Walked[k]))
            /\ Cardinality(Touched) <= IF NodeOf(Walked[k]).type = "heater" THEN 2 ELSE 1
        /\ snapshot' # <<>> => DOMAIN snapshot'[1] \subseteq DOMAIN state']_vars

\* the Heater of the chain has written its two variables next to the
\* caller's variables and the Motor's
C35_Witness ==
    /\ Solving
    /\ eng_call.graph = ComponentChain
    /\ pc = "dag"
    /\ k = 3
    /\ DOMAIN state = {"torque", "count", "motor_current", "ohms", "amps"}
    /\ state["torque"] = 5
    /\ state["ohms"] = 9 * Milli

\* ------------------------------------------------------- C36
\* the dict the caller passed as initial_state, as it is now
CallerDict == heap["initial"]

\* the sample run_sweep is about to solve
Sample == threads[1].sweep_values[Len(threads[1].results) + 1]

\* C36: at every point of run and run_sweep, and after them whether they
\* returned or raised, the caller's dict holds the names and values it was
\* passed with; the store of every sweep sample starts as that assignment with
\* the sweep variable set to the sample
C36_InitialAssignmentUntouched ==
    [][/\ CallerDict' = eng_call'.initial_state
       /\ (Looping /\ Solving') =>
            heap'[refs'.variables] =
                StateSet(eng_call.initial_state, SweepNodeOf.sweep_var, Sample)]_vars

\* the second sample of a sweep was solved on a store that overwrote the
\* caller's value of the sweep variable and gained the nodes' outputs
C36_Witness ==
    /\ Looping
    /\ eng_call.op = "run_sweep"
    /\ Len(threads[1].results) = 2
    /\ "torque" \in DOMAIN CallerDict
    /\ CallerDict["torque"] = 5
    /\ StoreObject["torque"] = 10
    /\ "total" \in DOMAIN StoreObject

\* ------------------------------------------------------- the signature store and the comparator
\* calls made on one store
MaxOps == 3

SignatureNames == {"normal", "fault_a"}

\* the vectors stored and diagnosed: a zero-length one, equal ones, one that
\* is a multiple of another, one of another length
Vectors == {<<>>, <<3, 4>>, <<6, 8>>, <<4, 3>>, <<1, 2, 9>>}

\* metadata arguments: None, an empty dict, a dict
Metadatas == {<<>>, <<{}>>, <<{<<"description", "bearing wear">>}>>}

Thresholds == {0, 2}

Methods == {"euclidean", "cosine"}

SignatureInit == Constructed(MaxCap, 1) /\ NoStore /\ EngineConstructed /\ Imported

\* the call and its arguments, appended to the calls made
Logged(op, name, vector, metadata_) ==
    fault_log' = Append(fault_log, [op |-> op, name |-> name, vector |-> vector,
                                    metadata |-> metadata_, threshold |-> 0, method |-> ""])

\* store.add(name, vector, metadata)
StoreAdd ==
    /\ Len(fault_log) < MaxOps
    /\ \E name \in SignatureNames, vector \in Vectors, metadata_ \in Metadatas :
        /\ signatures' = SignatureAdd(signatures, name, vector, metadata_)
        /\ Logged("add", name, vector, metadata_)
    /\ fault_result' = NoOutcome("add")
    /\ UNCHANGED <<solver, store, engine, registry, registrations, computed>>

\* store.remove(name)
StoreRemove ==
    /\ Len(fault_log) < MaxOps
    /\ \E name \in SignatureNames :
        /\ signatures' = SignatureRemove(signatures, name)
        /\ Logged("remove", name, <<>>, <<>>)
    /\ fault_result' = NoOutcome("remove")
    /\ UNCHANGED <<solver, store, engine, registry, registrations, computed>>

\* store.list_all()
StoreListAll ==
    /\ Len(fault_log) < MaxOps
    /\ fault_result' = [NoOutcome("list_all") EXCEPT !.raised = ListAll(signatures).raised,
                                                     !.summaries = ListAll(signatures).summaries]
    /\ Logged("list_all", "", <<>>, <<>>)
    /\ UNCHANGED <<solver, store, engine, registry, registrations, computed, signatures>>

\* comparator.diagnose(live_vector, threshold, method)
ComparatorDiagnose ==
    /\ Len(fault_log) < MaxOps
    /\ \E live_vector \in Vectors, threshold \in Thresholds, method \in Methods :
        /\ fault_result' =
            [NoOutcome("diagnose") EXCEPT
                !.raised = Diagnose(signatures, live_vector, threshold, method).raised,
                !.diagnosis = Diagnose(signatures, live_vector, threshold, method)]
        /\ fault_log' = Append(fault_log, [op |-> "diagnose", name |-> "", vector |-> live_vector,
                                           metadata |-> <<>>, threshold |-> threshold,
                                           method |-> method])
    /\ UNCHANGED <<solver, store, engine, registry, registrations, computed, signatures>>

SignatureNext ==
    \/ StoreAdd
    \/ StoreRemove
    \/ StoreListAll
    \/ ComparatorDiagnose

SignatureSpec == SignatureInit /\ [][SignatureNext]_vars

\* ------------------------------------------------------- C37
\* name in store, len(store)
Contains(name) == name \in Range(Keys(signatures.library))

StoreLen == Len(signatures.library)

\* the add and remove calls made on the name, in order
CallsOn(name) ==
    SelectSeq(fault_log, LAMBDA call : call.name = name /\ call.op \in {"add", "remove"})

LastCallOn(name) == CallsOn(name)[Len(CallsOn(name))]

LastWasAdd(name) == CallsOn(name) # <<>> /\ LastCallOn(name).op = "add"

\* the call made in this step
ThisCall == fault_log'[Len(fault_log')]

\* C37: the vector library and the metadata map always hold the same names;
\* a name is in the store exactly when the last add or remove made on it was
\* an add, and then with the vector and metadata of that add; remove of a
\* name that is not in the store changes nothing and raises nothing
C37_LibraryAndMetadataInStep ==
    [][/\ Range(Keys(signatures'.library)) = Range(Keys(signatures'.metadata))
       /\ Len(signatures'.library) = Cardinality(Range(Keys(signatures'.library)))
       /\ Len(signatures'.metadata) = Cardinality(Range(Keys(signatures'.metadata)))
       /\ \A name \in SignatureNames :
            /\ Contains(name)' <=> LastWasAdd(name)'
            /\ Contains(name)' =>
                /\ ItemOf(signatures'.library, name).data = LastCallOn(name)'.vector
                /\ ItemOf(signatures'.metadata, name) =
                        IF LastCallOn(name)'.metadata = <<>> THEN {}
                        ELSE LastCallOn(name)'.metadata[1]
       /\ (ThisCall.op = "remove" /\ ~Contains(ThisCall.name)) =>
            /\ signatures' = signatures
            /\ fault_result'.raised = "none"]_vars

\* a name was added twice with different vectors and metadata, and a name
\* that was never added was removed
C37_Witness ==
    /\ Len(fault_log) = 3
    /\ fault_log[1].op = "add"
    /\ fault_log[2].op = "add"
    /\ fault_log[1].name = fault_log[2].name
    /\ fault_log[1].vector # fault_log[2].vector
    /\ fault_log[1].metadata # fault_log[2].metadata
    /\ fault_log[3].op = "remove"
    /\ fault_log[3].name # fault_log[1].name
    /\ StoreLen = 1
    /\ fault_result.raised = "none"

\* ------------------------------------------------------- C38
\* C38: whatever vectors the store holds, list_all returns one summary per
\* stored name, in the order of the library, so as many as len(store)
C38_ListAllSummarisesEveryName ==
    fault_result.op = "list_all" =>
        /\ fault_result.raised = "none"
        /\ Len(fault_result.summaries) = StoreLen
        /\ [i \in 1..Len(fault_result.summaries) |-> fault_result.summaries[i].name]
                = Keys(signatures.library)

\* ------------------------------------------------------- C39
\* the diagnose call made last and what it handed back
DiagnoseCall == fault_log[Len(fault_log)]

Reported == fault_result.diagnosis

StoredVector(name) == ItemOf(signatures.library, name).data

\* the elements the live vector and the stored one have in common
Common(name) == 1..Min(Len(DiagnoseCall.vector), Len(StoredVector(name)))

\* the largest absolute element-wise difference to the stored vector
MaxResidual(name) ==
    SetMax({Abs(DiagnoseCall.vector[i] - StoredVector(name)[i]) : i \in Common(name)})

\* the score of name is strictly below the score of other
Closer(name, other) ==
    IF DiagnoseCall.method = "euclidean"
    THEN SumOf([i \in Common(name) |-> (DiagnoseCall.vector[i] - StoredVector(name)[i]) ^ 2])
         < SumOf([i \in Common(other) |-> (DiagnoseCall.vector[i] - StoredVector(other)[i]) ^ 2])
    ELSE CosineLess(CosineSimilarity(SubSeq(DiagnoseCall.vector, 1, Cardinality(Common(other))),
                                     SubSeq(StoredVector(other), 1, Cardinality(Common(other)))),
                    CosineSimilarity(SubSeq(DiagnoseCall.vector, 1, Cardinality(Common(name))),
                                     SubSeq(StoredVector(name), 1, Cardinality(Common(name)))))

\* name has the minimum score and everything stored ahead of it scores above
IsClosest(name) ==
    /\ Contains(name)
    /\ \A other \in Range(Keys(signatures.library)) :
        /\ ~Closer(other, name)
        /\ IndexOf(Keys(signatures.library), other) < IndexOf(Keys(signatures.library), name)
                => Closer(name, other)

\* C39: diagnose returns; it reports a fault exactly when the library is
\* empty or the largest absolute residual between the live vector and the
\* closest signature is above the threshold; with a non-empty library the
\* closest signature is the stored name of minimum score, the first stored
\* among equals
C39_FaultIffResidualAboveThreshold ==
    fault_result.op = "diagnose" =>
        /\ fault_result.raised = "none"
        /\ StoreLen = 0 => Reported.fault_detected /\ Reported.closest_signature = <<>>
        /\ StoreLen > 0 =>
            /\ Len(Reported.closest_signature) = 1
            /\ IsClosest(Reported.closest_signature[1])
            /\ Reported.fault_detected <=>
                    MaxResidual(Reported.closest_signature[1]) > DiagnoseCall.threshold

====
